---- MODULE Spec2Model ----
(***************************************************************************)
(* A model of stupid-mc-proxy (src/src/main.rs and src/src/protocol).      *)
(*                                                                         *)
(* Spec       the source-IP pool shared by the connection threads:         *)
(*            get_available_source_ip under the SOURCES mutex, the         *)
(*            handle a connection keeps in handle_client and its drop.     *)
(* SpecRelay  the relay loop of one connection, byte by byte.              *)
(* SpecLogin  the login interception of one connection, byte by byte:      *)
(*            the first login frame is read raw, checked, decoded and      *)
(*            forwarded behind the rewritten Handshake.                    *)
(* SpecSession  handle_client of one connection, step by step, from the    *)
(*            lookup of the target host through the status exchange or     *)
(*            the login interception to the entry of the relay loop.       *)
(* SpecVarInt, SpecVarLong  the VarInt and VarLong codecs on their own.    *)
(***************************************************************************)
EXTENDS Integers, Sequences, FiniteSets, TLC

\* Connection threads alive at the same time (the accept loop reuses a slot
\* once its thread has ended).
NumConns == 2
\* Longest list of configured --source-ip addresses.
MaxPool == 2

Conns == 1..NumConns
\* Option::None of an index into SOURCES.
None == 0
\* No thread holds the SOURCES mutex.
Unlocked == 0

VARIABLES
    SOURCES,        \* the pool: a sequence of address families ("v4" / "v6")
    strong_count,   \* Arc::strong_count of each pool entry
    mutex,          \* holder of the SOURCES mutex, or Unlocked
    pc,             \* where each connection thread is
    target_addr_v4, \* handle_client: target_addr_v4.is_some()
    target_addr_v6, \* handle_client: target_addr_v6.is_some()
    scan,           \* get_available_source_ip: position of the for loop
    source_ip,      \* handle_client: the handle the connection holds
    result,         \* what handle_client returned
    client_got,     \* frames the proxy wrote to the client
    target_opened   \* a socket to the target was connected

\* The relay loop of one connection (SpecRelay). The two peers of the proxy
\* are the sides "client" and "target".
VARIABLES
    delay,          \* Opts.delay: the polling rate, negative for readiness waits
    rpc,            \* where the relay loop is
    buf_2,          \* the bytes drained in the current pass
    pos,            \* the write position in buf_2
    last_write,     \* how the last write call of the current flush ended
    relay_result,   \* what the relay loop returned
    rx,             \* per side: bytes it sent that the proxy has not read yet
    sent,           \* per side: how many bytes it has sent
    eof,            \* per side: it closed the connection
    writable,       \* per side: its socket accepts writes (else WouldBlock)
    read_from,      \* per side: every byte the proxy read from it, in order
    written_to      \* per side: every byte the proxy wrote to it, in order

\* The login interception of one connection (SpecLogin), from the connected
\* target socket to the entry of the relay loop. Bytes are 0..255.
VARIABLES
    protocol_version,        \* handshake.protocol_version, as the client sent it
    alias_host,              \* Opts.alias_host (an Option of a string's bytes)
    alias_port,              \* Opts.alias_port (an Option)
    login_sent,              \* the id bytes and payload the client framed
    client_stream,           \* the bytes the client sent that are not yet read
    lpc,                     \* where the login interception is
    initial_packets_buffer,  \* the buffer that collects the first two frames
    login_first_packet_id,   \* the id read_raw_packet_id_and_data returned
    login_first_packet_data, \* the payload it returned
    login_format,            \* which decode succeeded: "new", "legacy", "none"
    target_calls,            \* the buffers handed to target.write_all, in order
    target_got,              \* the bytes the target socket took
    login_result             \* the error the interception ended with

\* handle_client of one connection, step by step (SpecSession). The frames
\* of the handshake and of the status exchange are records of a packet id
\* and a body; the login frame that follows is in client_stream, in bytes.
VARIABLES
    spc,             \* where handle_client is
    target_addr,     \* the resolved target address (an Option of its family)
    from_client,     \* the frames the client sent that are not yet read
    client_handshake, \* the Handshake the client sent, as its fields
    client_sent,     \* all the frames the client sent
    handshake,       \* the Handshake handle_client decoded (an Option)
    to_client,       \* the frames written to the client
    target_conns,    \* how many connections to the target were opened
    query_out,       \* the frames written to the target on the status query
    json_response,   \* the JSON string of the target's StatusResponse (an Option)
    status,          \* the status document of the target (an Option)
    ping,            \* the measured ping in ms
    ping_request,    \* the payload of the client's Ping (an Option)
    session_source,  \* the outcome of get_available_source_ip
    events,          \* what handle_client did on its sockets, in order
    session_result   \* what handle_client returned

\* A value through its codec, for the specifications SpecVarInt and
\* SpecVarLong: the test loops of types.rs, write then read.
VARIABLES
    cpc,             \* what the codec run does next
    test_number,     \* the number to write (an i64 as its 64 bits)
    behind,          \* the bytes in the reader behind the number
    written,         \* the bytes write_as_mc_type wrote
    read_back        \* what read_as_mc_type returned

poolVars == <<SOURCES, strong_count, mutex, pc, target_addr_v4, target_addr_v6,
              scan, source_ip, result, client_got, target_opened>>

\* The state of the other specifications, which Spec leaves alone.
relayVars == <<delay, rpc, buf_2, pos, last_write, relay_result,
               rx, sent, eof, writable, read_from, written_to>>

loginVars == <<protocol_version, alias_host, alias_port, login_sent,
               client_stream, lpc, initial_packets_buffer, login_first_packet_id,
               login_first_packet_data, login_format, target_calls, target_got,
               login_result>>

sessionVars == <<spc, target_addr, from_client, client_handshake, client_sent, handshake,
                 to_client, target_conns, query_out, json_response, status, ping,
                 ping_request, session_source, events, session_result>>

codecVars == <<cpc, test_number, behind, written, read_back>>

nonPoolVars == <<relayVars, loginVars, sessionVars, codecVars>>

\* The state of the other specifications, which SpecRelay leaves alone.
nonRelayVars == <<poolVars, loginVars, sessionVars, codecVars>>

\* The state of the other specifications, which SpecLogin leaves alone.
nonLoginVars == <<poolVars, relayVars, sessionVars, codecVars>>

\* The state of the other specifications, which the steps of SpecSession
\* before the login interception leave alone.
nonSessionVars == <<poolVars, relayVars, codecVars>>

\* The state of the other specifications, which the codec runs leave alone.
nonCodecVars == <<poolVars, relayVars, loginVars, sessionVars>>

vars == <<poolVars, nonPoolVars>>

Families == {"v4", "v6"}

\* The pools main() can build from --source-ip: any list of addresses.
Pools == UNION {[1..n -> Families] : n \in 0..MaxPool}

\* anyhow!("Out of Source IPs!")
OutOfSourceIPs == "Out of Source IPs!"

InitPool ==
    /\ SOURCES \in Pools
    /\ strong_count = [i \in 1..Len(SOURCES) |-> 1]
    /\ mutex = Unlocked
    /\ pc = [c \in Conns |-> "idle"]
    /\ target_addr_v4 = [c \in Conns |-> FALSE]
    /\ target_addr_v6 = [c \in Conns |-> FALSE]
    /\ scan = [c \in Conns |-> 0]
    /\ source_ip = [c \in Conns |-> None]
    /\ result = [c \in Conns |-> "none"]
    /\ client_got = [c \in Conns |-> <<>>]
    /\ target_opened = [c \in Conns |-> FALSE]

\* main's loop: server.accept() and std::thread::spawn of a new handler.
Accept(c) ==
    /\ pc[c] \in {"idle", "closed"}
    /\ pc' = [pc EXCEPT ![c] = "start"]
    /\ result' = [result EXCEPT ![c] = "none"]
    /\ client_got' = [client_got EXCEPT ![c] = <<>>]
    /\ target_opened' = [target_opened EXCEPT ![c] = FALSE]
    /\ UNCHANGED <<SOURCES, strong_count, mutex, target_addr_v4, target_addr_v6,
                   scan, source_ip>>
    /\ UNCHANGED nonPoolVars

\* A handle that is never given back (a leaked Arc).
DropHandleLeaked(c) == strong_count

\* The end of handle_client by any return: its locals are dropped, and with
\* them the Option<Arc<IpAddr>> in source_ip.
DropHandle(c) ==
    IF source_ip[c] = None
    THEN strong_count
    ELSE [strong_count EXCEPT ![source_ip[c]] = @ - 1]

\* An end of handle_client that takes the process down with it: every
\* connection is closed and every handle is dropped.
ReturnEndsProcess(c, res) ==
    /\ pc' = [d \in Conns |-> "closed"]
    /\ result' = [result EXCEPT ![c] = res]
    /\ strong_count' = [i \in DOMAIN strong_count |-> 1]
    /\ source_ip' = [d \in Conns |-> None]
    /\ target_addr_v4' = [d \in Conns |-> FALSE]
    /\ target_addr_v6' = [d \in Conns |-> FALSE]
    /\ scan' = [d \in Conns |-> 0]

Return(c, res) ==
    /\ pc' = [pc EXCEPT ![c] = "closed"]
    /\ result' = [result EXCEPT ![c] = res]
    /\ strong_count' = DropHandle(c)
    /\ source_ip' = [source_ip EXCEPT ![c] = None]
    /\ target_addr_v4' = [target_addr_v4 EXCEPT ![c] = FALSE]
    /\ target_addr_v6' = [target_addr_v6 EXCEPT ![c] = FALSE]
    /\ scan' = [scan EXCEPT ![c] = 0]

\* Frames of the packet catalog, as the proxy writes them to the client.
LoginDisconnectFrame(err) ==
    [packet |-> "ServerLoginDisconnect", id |-> 0,
     reason |-> [text |-> "StupidMCProxy Error: " \o err]]

StatusResponseFrame == [packet |-> "ServerStatusResponsePacket", id |-> 0]

StatusPongFrame == [packet |-> "ServerStatusPongPacket", id |-> 1]

\* next_state values a client can put in its Handshake: Status, Login, other.
NextStates == {1, 2, 3}

\* handle_client up to the call of get_available_source_ip: the lookup of the
\* target host, the client's Handshake, and the whole status exchange when
\* the client asked for it.
Begin(c) ==
    /\ pc[c] = "start"
    /\ UNCHANGED <<SOURCES, mutex>>
    /\ UNCHANGED nonPoolVars
    /\ \/ /\ Return(c, "getaddrinfo")
          /\ UNCHANGED <<client_got, target_opened>>
       \/ \E v4 \in BOOLEAN, v6 \in BOOLEAN :
            IF ~v4 /\ ~v6
            THEN /\ Return(c, "No address found for target host!")
                 /\ UNCHANGED <<client_got, target_opened>>
            ELSE \/ /\ Return(c, "Read handshake")
                    /\ UNCHANGED <<client_got, target_opened>>
                 \/ \E next_state \in NextStates :
                      CASE next_state = 1 ->
                             \/ /\ Return(c, "Ok")
                                /\ target_opened' = [target_opened EXCEPT ![c] = TRUE]
                                /\ client_got' = [client_got EXCEPT ![c] =
                                                    <<StatusResponseFrame, StatusPongFrame>>]
                             \/ /\ Return(c, "status")
                                /\ \E opened \in BOOLEAN :
                                      target_opened' = [target_opened EXCEPT ![c] = opened]
                                /\ UNCHANGED client_got
                        [] next_state = 2 ->
                             /\ pc' = [pc EXCEPT ![c] = "acquire"]
                             /\ target_addr_v4' = [target_addr_v4 EXCEPT ![c] = v4]
                             /\ target_addr_v6' = [target_addr_v6 EXCEPT ![c] = v6]
                             /\ UNCHANGED <<strong_count, scan, source_ip, result,
                                            client_got, target_opened>>
                        [] OTHER ->
                             /\ Return(c, "Client requested next state, which is not supported!")
                             /\ UNCHANGED <<client_got, target_opened>>

\* A scan that does not wait for the lock.
MutexFreeUnguarded == TRUE

\* SOURCES.lock(): the calling thread waits until no thread holds the mutex.
MutexFree == mutex = Unlocked

\* Arc::strong_count(ip) > 1
InUse(i) == strong_count[i] > 1

\* A test that takes an entry of either family.
FamilyIgnored(ip, v4, v6) == TRUE

\* (ip.is_ipv4() && v4) || (ip.is_ipv6() && v6)
FamilyWanted(ip, v4, v6) == (ip = "v4" /\ v4) \/ (ip = "v6" /\ v6)

\* A test that forgets the ownership count.
EligibleAnyCount(i, v4, v6) == FamilyWanted(SOURCES[i], v4, v6)

\* The test of one pool entry in the for loop of get_available_source_ip.
Eligible(i, v4, v6) == ~InUse(i) /\ FamilyWanted(SOURCES[i], v4, v6)

\* A lock after which an empty pool counts as a pool with nothing free.
LockEmptyIsOut(c) ==
    /\ pc[c] = "acquire"
    /\ MutexFree
    /\ IF Len(SOURCES) = 0
       THEN /\ pc' = [pc EXCEPT ![c] = "kick"]
            /\ UNCHANGED <<mutex, scan>>
       ELSE /\ mutex' = c
            /\ scan' = [scan EXCEPT ![c] = 1]
            /\ pc' = [pc EXCEPT ![c] = "scan"]
    /\ UNCHANGED <<SOURCES, strong_count, target_addr_v4, target_addr_v6,
                   source_ip, result, client_got, target_opened>>
    /\ UNCHANGED nonPoolVars

\* get_available_source_ip: take the lock; an empty pool is Ok(None).
Lock(c) ==
    /\ pc[c] = "acquire"
    /\ MutexFree
    /\ IF Len(SOURCES) = 0
       THEN /\ pc' = [pc EXCEPT ![c] = "connect"]
            /\ UNCHANGED <<mutex, scan>>
       ELSE /\ mutex' = c
            /\ scan' = [scan EXCEPT ![c] = 1]
            /\ pc' = [pc EXCEPT ![c] = "scan"]
    /\ UNCHANGED <<SOURCES, strong_count, target_addr_v4, target_addr_v6,
                   source_ip, result, client_got, target_opened>>
    /\ UNCHANGED nonPoolVars

\* A scan that, finding nothing, goes on without a source address as if
\* none were configured.
ScanCheckFallsBack(c) ==
    /\ pc[c] = "scan"
    /\ IF Eligible(scan[c], target_addr_v4[c], target_addr_v6[c])
       THEN /\ pc' = [pc EXCEPT ![c] = "clone"]
            /\ UNCHANGED <<mutex, scan>>
       ELSE IF scan[c] < Len(SOURCES)
       THEN /\ scan' = [scan EXCEPT ![c] = @ + 1]
            /\ UNCHANGED <<mutex, pc>>
       ELSE /\ mutex' = Unlocked
            /\ scan' = [scan EXCEPT ![c] = 0]
            /\ pc' = [pc EXCEPT ![c] = "connect"]
    /\ UNCHANGED <<SOURCES, strong_count, target_addr_v4, target_addr_v6,
                   source_ip, result, client_got, target_opened>>
    /\ UNCHANGED nonPoolVars

\* get_available_source_ip: one turn of the for loop; when the loop ends
\* without a return the function returns Err and the guard is dropped.
ScanCheck(c) ==
    /\ pc[c] = "scan"
    /\ IF Eligible(scan[c], target_addr_v4[c], target_addr_v6[c])
       THEN /\ pc' = [pc EXCEPT ![c] = "clone"]
            /\ UNCHANGED <<mutex, scan>>
       ELSE IF scan[c] < Len(SOURCES)
       THEN /\ scan' = [scan EXCEPT ![c] = @ + 1]
            /\ UNCHANGED <<mutex, pc>>
       ELSE /\ mutex' = Unlocked
            /\ scan' = [scan EXCEPT ![c] = 0]
            /\ pc' = [pc EXCEPT ![c] = "kick"]
    /\ UNCHANGED <<SOURCES, strong_count, target_addr_v4, target_addr_v6,
                   source_ip, result, client_got, target_opened>>
    /\ UNCHANGED nonPoolVars

\* get_available_source_ip: return Ok(Some(ip.clone())), dropping the guard;
\* handle_client keeps the handle in source_ip.
CloneReturn(c) ==
    /\ pc[c] = "clone"
    /\ strong_count' = [strong_count EXCEPT ![scan[c]] = @ + 1]
    /\ source_ip' = [source_ip EXCEPT ![c] = scan[c]]
    /\ mutex' = Unlocked
    /\ scan' = [scan EXCEPT ![c] = 0]
    /\ pc' = [pc EXCEPT ![c] = "connect"]
    /\ UNCHANGED <<SOURCES, target_addr_v4, target_addr_v6, result, client_got,
                   target_opened>>
    /\ UNCHANGED nonPoolVars

\* An Err arm that returns the error without telling the client.
KickSilently(c) ==
    /\ pc[c] = "kick"
    /\ Return(c, OutOfSourceIPs)
    /\ UNCHANGED <<SOURCES, mutex, client_got, target_opened>>
    /\ UNCHANGED nonPoolVars

\* handle_client, the Err arm of the match on get_available_source_ip: write
\* ServerLoginDisconnect to the client (the write can fail) and return.
Kick(c) ==
    /\ pc[c] = "kick"
    /\ \/ /\ client_got' = [client_got EXCEPT ![c] =
                              Append(@, LoginDisconnectFrame(OutOfSourceIPs))]
          /\ Return(c, OutOfSourceIPs)
       \/ /\ UNCHANGED client_got
          /\ Return(c, "Kick client due to error obtaining new source ip")
    /\ UNCHANGED <<SOURCES, mutex, target_opened>>
    /\ UNCHANGED nonPoolVars

\* handle_client: the socket to the target, bound to the source address when
\* one was granted.
ConnectTarget(c) ==
    /\ pc[c] = "connect"
    /\ LET ip == IF source_ip[c] = None THEN "none" ELSE SOURCES[source_ip[c]] IN
       \/ /\ Return(c, "Connect to target")
          /\ UNCHANGED target_opened
       \/ /\ ip = "v4" /\ ~target_addr_v4[c]
          /\ Return(c, "Expected resolved target IPv4")
          /\ UNCHANGED target_opened
       \/ /\ ip = "v6" /\ ~target_addr_v6[c]
          /\ Return(c, "Expected resolved target IPv6")
          /\ UNCHANGED target_opened
       \/ /\ ip = "v4" => target_addr_v4[c]
          /\ ip = "v6" => target_addr_v6[c]
          /\ target_opened' = [target_opened EXCEPT ![c] = TRUE]
          /\ pc' = [pc EXCEPT ![c] = "login"]
          /\ UNCHANGED <<strong_count, target_addr_v4, target_addr_v6, scan,
                         source_ip, result>>
    /\ UNCHANGED <<SOURCES, mutex, client_got>>
    /\ UNCHANGED nonPoolVars

\* The ways the rest of handle_client ends once the target is connected: an
\* error of the login interception (a first frame that is not LoginStart, an
\* undecodable LoginStart, a failed write to the target), or the end of the
\* relay loop (a peer closed, or an I/O error).
SessionEnds ==
    {"Expect to receive Packet LoginStart", "Parse LoginStart", "Write to target",
     "Ok", "Read client", "Read target"}

\* handle_client after the connect: forward the Handshake and the client's
\* LoginStart, then relay until the loop returns.
LoginAndRelay(c) ==
    /\ pc[c] = "login"
    /\ \E res \in SessionEnds : Return(c, res)
    /\ UNCHANGED <<SOURCES, mutex, client_got, target_opened>>
    /\ UNCHANGED nonPoolVars

Sides == {"client", "target"}

\* No relay loop runs.
RelayIdle ==
    /\ delay = 50
    /\ rpc = "idle"
    /\ buf_2 = <<>>
    /\ pos = 0
    /\ last_write = "none"
    /\ relay_result = "none"
    /\ rx = [s \in Sides |-> <<>>]
    /\ sent = [s \in Sides |-> 0]
    /\ eof = [s \in Sides |-> FALSE]
    /\ writable = [s \in Sides |-> TRUE]
    /\ read_from = [s \in Sides |-> <<>>]
    /\ written_to = [s \in Sides |-> <<>>]

\* Option::None and Option::Some of a configured or received value.
NoneOpt == <<>>

Some(v) == <<v>>

\* No login interception is modelled byte by byte.
LoginIdle ==
    /\ protocol_version = 0
    /\ alias_host = NoneOpt
    /\ alias_port = NoneOpt
    /\ login_sent = [id_bytes |-> <<>>, payload |-> <<>>]
    /\ client_stream = <<>>
    /\ lpc = "idle"
    /\ initial_packets_buffer = <<>>
    /\ login_first_packet_id = NoneOpt
    /\ login_first_packet_data = <<>>
    /\ login_format = "none"
    /\ target_calls = <<>>
    /\ target_got = <<>>
    /\ login_result = "none"

\* No connection is modelled step by step.
SessionIdle ==
    /\ spc = "idle"
    /\ target_addr = NoneOpt
    /\ from_client = <<>>
    /\ client_handshake = NoneOpt
    /\ client_sent = <<>>
    /\ handshake = NoneOpt
    /\ to_client = <<>>
    /\ target_conns = 0
    /\ query_out = <<>>
    /\ json_response = NoneOpt
    /\ status = NoneOpt
    /\ ping = 0
    /\ ping_request = NoneOpt
    /\ session_source = "none"
    /\ events = <<>>
    /\ session_result = "none"

\* No codec run.
CodecIdle ==
    /\ cpc = "idle"
    /\ test_number = 0
    /\ behind = <<>>
    /\ written = <<>>
    /\ read_back = NoneOpt

Init == InitPool /\ RelayIdle /\ LoginIdle /\ SessionIdle /\ CodecIdle

Next ==
    \E c \in Conns :
        \/ Accept(c)
        \/ Begin(c)
        \/ Lock(c)
        \/ ScanCheck(c)
        \/ CloneReturn(c)
        \/ Kick(c)
        \/ ConnectTarget(c)
        \/ LoginAndRelay(c)

Spec == Init /\ [][Next]_vars

(***************************************************************************)
(* SpecRelay: the relay loop of handle_client (main.rs 451-538) for one    *)
(* connection, with the two sockets as the environment. The k-th byte a    *)
(* peer sends is a number of its own, so that a byte out of place shows.   *)
(***************************************************************************)

\* Bytes each peer sends at most.
MaxBytes == 2

\* vec![0u8; 4096 * 16]: the most one read call returns.
BufSize == 65536

\* Opts.delay: a readiness wait (negative) or the default sleep.
Delays == {-1, 50}

Min(a, b) == IF a < b THEN a ELSE b

Other(s) == IF s = "client" THEN "target" ELSE "client"

\* The k-th byte that side s sends.
ByteOf(s, k) == IF s = "client" THEN k ELSE 100 + k

\* Where the loop reads from side s, and where it writes to side s.
ReadPc(s) == IF s = "client" THEN "read_client" ELSE "read_target"

WritePc(s) == IF s = "client" THEN "write_client" ELSE "write_target"

\* No connection thread runs (the pool plays no part in the relay loop).
PoolIdle ==
    /\ SOURCES = <<>>
    /\ strong_count = <<>>
    /\ mutex = Unlocked
    /\ pc = [c \in Conns |-> "idle"]
    /\ target_addr_v4 = [c \in Conns |-> FALSE]
    /\ target_addr_v6 = [c \in Conns |-> FALSE]
    /\ scan = [c \in Conns |-> 0]
    /\ source_ip = [c \in Conns |-> None]
    /\ result = [c \in Conns |-> "none"]
    /\ client_got = [c \in Conns |-> <<>>]
    /\ target_opened = [c \in Conns |-> FALSE]

\* The state on entering the loop: both sockets connected and non-blocking.
InitRelay ==
    /\ delay \in Delays
    /\ rpc = "wait"
    /\ buf_2 = <<>>
    /\ pos = 0
    /\ last_write = "none"
    /\ relay_result = "none"
    /\ rx = [s \in Sides |-> <<>>]
    /\ sent = [s \in Sides |-> 0]
    /\ eof = [s \in Sides |-> FALSE]
    /\ writable = [s \in Sides |-> TRUE]
    /\ read_from = [s \in Sides |-> <<>>]
    /\ written_to = [s \in Sides |-> <<>>]

\* ---- the peers and their sockets ----

\* Side s sends its next byte.
PeerSend(s) ==
    /\ rpc # "done"
    /\ ~eof[s]
    /\ sent[s] < MaxBytes
    /\ sent' = [sent EXCEPT ![s] = @ + 1]
    /\ rx' = [rx EXCEPT ![s] = Append(@, ByteOf(s, sent[s] + 1))]
    /\ UNCHANGED <<delay, rpc, buf_2, pos, last_write, relay_result, eof, writable,
                   read_from, written_to>>
    /\ UNCHANGED nonRelayVars

\* Side s closes the connection.
PeerClose(s) ==
    /\ rpc # "done"
    /\ ~eof[s]
    /\ eof' = [eof EXCEPT ![s] = TRUE]
    /\ UNCHANGED <<delay, rpc, buf_2, pos, last_write, relay_result, rx, sent,
                   writable, read_from, written_to>>
    /\ UNCHANGED nonRelayVars

\* The socket of side s starts or stops accepting writes (a slow peer).
PeerWritable(s) ==
    /\ rpc # "done"
    /\ writable' = [writable EXCEPT ![s] = ~@]
    /\ UNCHANGED <<delay, rpc, buf_2, pos, last_write, relay_result, rx, sent, eof,
                   read_from, written_to>>
    /\ UNCHANGED nonRelayVars

\* ---- the loop ----

\* A return from the loop.
RelayReturn(res) ==
    /\ rpc' = "done"
    /\ relay_result' = res

\* A read call on side s would not block: data is queued or the peer closed.
Readable(s) == rx[s] # <<>> \/ eof[s]

\* The top of an iteration: the readiness wait or the sleep, then
\* buf_2.clear() for the drain of the client.
Wait ==
    /\ rpc = "wait"
    /\ delay >= 0 \/ \E s \in Sides : Readable(s)
    /\ rpc' = "read_client"
    /\ buf_2' = <<>>
    /\ pos' = 0
    /\ last_write' = "none"
    /\ UNCHANGED <<delay, relay_result, rx, sent, eof, writable, read_from, written_to>>
    /\ UNCHANGED nonRelayVars

\* Poller::new, poller.add or poller.wait fails.
PollerFails ==
    /\ rpc = "wait"
    /\ delay < 0
    /\ RelayReturn("Poller")
    /\ UNCHANGED <<delay, buf_2, pos, last_write, rx, sent, eof, writable,
                   read_from, written_to>>
    /\ UNCHANGED nonRelayVars

\* One read call of the drain loop on side s: bytes are pushed onto buf_2, a
\* zero-byte read returns Ok, WouldBlock ends the drain.
Drain(s) ==
    /\ rpc = ReadPc(s)
    /\ \/ /\ rx[s] # <<>>
          /\ \E n \in 1..Min(Len(rx[s]), BufSize) :
                /\ buf_2' = buf_2 \o SubSeq(rx[s], 1, n)
                /\ read_from' = [read_from EXCEPT ![s] = @ \o SubSeq(rx[s], 1, n)]
                /\ rx' = [rx EXCEPT ![s] = SubSeq(@, n + 1, Len(@))]
          /\ UNCHANGED <<rpc, pos, last_write, relay_result>>
       \/ /\ rx[s] = <<>> /\ eof[s]
          /\ RelayReturn("Ok")
          /\ UNCHANGED <<buf_2, pos, last_write, rx, read_from>>
       \/ /\ rx[s] = <<>> /\ ~eof[s]
          /\ rpc' = WritePc(Other(s))
          /\ pos' = 0
          /\ last_write' = "none"
          /\ UNCHANGED <<buf_2, relay_result, rx, read_from>>
    /\ UNCHANGED <<delay, sent, eof, writable, written_to>>
    /\ UNCHANGED nonRelayVars

\* A read call on side s fails with an error other than WouldBlock.
ReadFails(s) ==
    /\ rpc = ReadPc(s)
    /\ RelayReturn(IF s = "client" THEN "Read client" ELSE "Read target")
    /\ UNCHANGED <<delay, buf_2, pos, last_write, rx, sent, eof, writable,
                   read_from, written_to>>
    /\ UNCHANGED nonRelayVars

\* A write that hands the whole buffer to the socket again.
WriteSliceWhole(buf, p) == buf

\* &buf_2[pos..]
WriteSlice(buf, p) == SubSeq(buf, p + 1, Len(buf))

\* A WouldBlock that gives the flush up and moves on.
WouldBlockGivesUp(s) ==
    /\ last_write' = "WouldBlock"
    /\ rpc' = IF s = "target" THEN "read_target" ELSE "wait"
    /\ UNCHANGED <<buf_2, pos, written_to>>

\* A WouldBlock on a write that ends the loop.
WouldBlockEnds(s) ==
    /\ last_write' = "WouldBlock"
    /\ rpc' = "done"
    /\ UNCHANGED <<buf_2, pos, written_to>>

\* The WouldBlock arm of a write: sleep 25 ms and continue the while loop.
WouldBlock(s) ==
    /\ last_write' = "WouldBlock"
    /\ UNCHANGED <<rpc, buf_2, pos, written_to>>

\* One turn of the while loop that writes buf_2 to side s: the loop ends when
\* pos has reached the length (the next drain then starts with
\* buf_2.clear()); else one write call, which writes some bytes of the rest
\* or would block.
Flush(s) ==
    /\ rpc = WritePc(s)
    /\ IF pos >= Len(buf_2)
       THEN /\ IF s = "target"
               THEN rpc' = "read_target" /\ buf_2' = <<>> /\ pos' = 0
               ELSE rpc' = "wait" /\ UNCHANGED <<buf_2, pos>>
            /\ UNCHANGED <<last_write, relay_result, written_to>>
       ELSE \/ /\ writable[s]
               /\ \E n \in 1..Len(WriteSlice(buf_2, pos)) :
                     /\ written_to' = [written_to EXCEPT ![s] =
                                         @ \o SubSeq(WriteSlice(buf_2, pos), 1, n)]
                     /\ pos' = pos + n
               /\ last_write' = "Ok"
               /\ UNCHANGED <<rpc, buf_2, relay_result>>
            \/ /\ ~writable[s]
               /\ WouldBlock(s)
               /\ UNCHANGED relay_result
    /\ UNCHANGED <<delay, rx, sent, eof, writable, read_from>>
    /\ UNCHANGED nonRelayVars

\* A write call on side s fails with an error other than WouldBlock.
WriteFails(s) ==
    /\ rpc = WritePc(s)
    /\ pos < Len(buf_2)
    /\ RelayReturn(IF s = "client" THEN "Write to client" ELSE "Write to target")
    /\ UNCHANGED <<delay, buf_2, pos, last_write, rx, sent, eof, writable,
                   read_from, written_to>>
    /\ UNCHANGED nonRelayVars

\* Client -> Target
ReadClient == Drain("client")

WriteTarget == Flush("target")

\* Target -> Client
ReadTarget == Drain("target")

WriteClient == Flush("client")

\* The steps of the connection thread whose calls do not fail.
RelayStep == Wait \/ ReadClient \/ WriteTarget \/ ReadTarget \/ WriteClient

NextRelay ==
    \/ Wait
    \/ ReadClient
    \/ WriteTarget
    \/ ReadTarget
    \/ WriteClient
    \/ PollerFails
    \/ \E s \in Sides : ReadFails(s)
    \/ \E s \in Sides : WriteFails(s)
    \/ \E s \in Sides : PeerSend(s)
    \/ \E s \in Sides : PeerClose(s)
    \/ \E s \in Sides : PeerWritable(s)

RelayInit == InitRelay /\ PoolIdle /\ LoginIdle /\ SessionIdle /\ CodecIdle

SpecRelay == RelayInit /\ [][NextRelay]_vars

\* The connection thread keeps running (a thread of its own, never blocked
\* by another connection); nothing obliges a socket to fail.
SpecRelayFair == SpecRelay /\ WF_vars(RelayStep)

(***************************************************************************)
(* The wire types of src/src/protocol/types.rs, on sequences of bytes.     *)
(* A read returns [ok |-> TRUE, value, rest] or [ok |-> FALSE, err].       *)
(***************************************************************************)

\* Longest run of bytes the client puts behind the part the proxy decodes.
MaxTrailing == 2

\* The error of a read_exact that finds too few bytes.
UnexpectedEof == "UnexpectedEof"

VarIntTooBig == "VarInt is too big"

\* A thread that panicked (or an allocation that aborted).
Panic == "panic"

Fail(e) == [ok |-> FALSE, err |-> e]

\* VarInt::read_as_mc_type: seven bits a byte, least significant first, into
\* an i32; the fifth byte keeps its low four bits, the highest of which is
\* the sign. A sixth byte is refused.
RECURSIVE VarIntReadFrom(_, _, _)
VarIntReadFrom(bytes, num_read, acc) ==
    IF bytes = <<>> THEN Fail(UnexpectedEof)
    ELSE IF num_read >= 5 THEN Fail(VarIntTooBig)
    ELSE LET value == Head(bytes) % 128
             low == value % 16
             shifted == IF num_read < 4
                        THEN acc + value * 2^(7 * num_read)
                        ELSE acc + (IF low >= 8 THEN low - 16 ELSE low) * 2^28
         IN  IF Head(bytes) >= 128
             THEN VarIntReadFrom(Tail(bytes), num_read + 1, shifted)
             ELSE [ok |-> TRUE, value |-> shifted, rest |-> Tail(bytes)]

VarIntRead(bytes) == VarIntReadFrom(bytes, 0, 0)

\* The groups of a shift that carries the sign along (>> on an i32).
SeptetOfSigned(i, k) == (i \div 2^(7 * k)) % 128

\* Bits 7k .. 7k+6 of an i32 taken as a u32 (k = 4: bits 28 .. 31).
Septet(i, k) == IF k < 4 THEN (i \div 2^(7 * k)) % 128 ELSE (i \div 2^28) % 16

\* value >> 7k is zero.
ShiftedOut(i, k) == \A j \in k..4 : Septet(i, j) = 0

\* VarInt::write_as_mc_type: the loop that pushes seven bits a byte and
\* shifts the value, treated as unsigned, until nothing above is left.
RECURSIVE VarIntWriteFrom(_, _)
VarIntWriteFrom(i, k) ==
    IF ShiftedOut(i, k + 1)
    THEN <<Septet(i, k)>>
    ELSE <<Septet(i, k) + 128>> \o VarIntWriteFrom(i, k + 1)

VarIntWrite(i) == VarIntWriteFrom(i, 0)

\* A u16 written with its low byte first.
UnsignedShortWriteLittleEndian(n) == <<n % 256, n \div 256>>

\* UnsignedShort::write_as_mc_type: big endian.
UnsignedShortWrite(n) == <<n \div 256, n % 256>>

UnsignedShortRead(bytes) ==
    IF Len(bytes) < 2 THEN Fail(UnexpectedEof)
    ELSE [ok |-> TRUE, value |-> bytes[1] * 256 + bytes[2],
          rest |-> SubSeq(bytes, 3, Len(bytes))]

Continuation(b) == 128 <= b /\ b <= 191

\* String::from_utf8 accepts the bytes.
RECURSIVE IsUtf8(_)
IsUtf8(bytes) ==
    IF bytes = <<>> THEN TRUE
    ELSE LET b == bytes[1]
             n == Len(bytes)
         IN  IF b < 128 THEN IsUtf8(Tail(bytes))
             ELSE IF 194 <= b /\ b <= 223
             THEN n >= 2 /\ Continuation(bytes[2]) /\ IsUtf8(SubSeq(bytes, 3, n))
             ELSE IF 224 <= b /\ b <= 239
             THEN /\ n >= 3
                  /\ Continuation(bytes[2]) /\ Continuation(bytes[3])
                  /\ b = 224 => bytes[2] >= 160
                  /\ b = 237 => bytes[2] <= 159
                  /\ IsUtf8(SubSeq(bytes, 4, n))
             ELSE IF 240 <= b /\ b <= 244
             THEN /\ n >= 4
                  /\ Continuation(bytes[2]) /\ Continuation(bytes[3])
                  /\ Continuation(bytes[4])
                  /\ b = 240 => bytes[2] >= 144
                  /\ b = 244 => bytes[2] <= 143
                  /\ IsUtf8(SubSeq(bytes, 5, n))
             ELSE FALSE

\* String::read_as_mc_type: a VarInt length, that many bytes, UTF-8.
StringRead(bytes) ==
    LET string_length == VarIntRead(bytes)
    IN  IF ~string_length.ok THEN string_length
        ELSE IF string_length.value < 0 THEN Fail("Length can't be less than 0!")
        ELSE IF Len(string_length.rest) < string_length.value THEN Fail(UnexpectedEof)
        ELSE LET string_bytes == SubSeq(string_length.rest, 1, string_length.value)
             IN  IF ~IsUtf8(string_bytes) THEN Fail("FromUtf8Error")
                 ELSE [ok |-> TRUE, value |-> string_bytes,
                       rest |-> SubSeq(string_length.rest, string_length.value + 1,
                                       Len(string_length.rest))]

\* A String written with the number of its characters in front.
StringWriteCharacters(str) ==
    VarIntWrite(Len(SelectSeq(str, LAMBDA b : ~Continuation(b)))) \o str

\* String::write_as_mc_type
StringWrite(str) == VarIntWrite(Len(str)) \o str

\* UUID::read_as_mc_type: sixteen bytes.
UUIDRead(bytes) ==
    IF Len(bytes) < 16 THEN Fail(UnexpectedEof)
    ELSE [ok |-> TRUE, value |-> SubSeq(bytes, 1, 16),
          rest |-> SubSeq(bytes, 17, Len(bytes))]

(***************************************************************************)
(* Frames and packets (src/src/protocol/mod.rs, client/login.rs,           *)
(* client/handshake.rs).                                                   *)
(***************************************************************************)

\* 1024 * 1024 * 8
MaxPacketSize == 8388608

\* A reader of frames that believes every declared size.
read_raw_of_any_size(reader) ==
    LET size == VarIntRead(reader)
    IN  IF ~size.ok THEN size
        ELSE IF size.value < 0 THEN Fail(Panic)
        ELSE IF Len(size.rest) < size.value THEN Fail("Read expected packet size")
        ELSE LET buffer == SubSeq(size.rest, 1, size.value)
                 packet_id == VarIntRead(buffer)
             IN  IF ~packet_id.ok THEN Fail("Read packet id")
                 ELSE [ok |-> TRUE, id |-> packet_id.value, data |-> packet_id.rest,
                       rest |-> SubSeq(size.rest, size.value + 1, Len(size.rest))]

\* read_raw_packet_id_and_data: [ok, id, data, rest], rest being what is
\* left in the reader. A negative size makes vec![0u8; size as usize] ask
\* for more than the address space.
read_raw_packet_id_and_data(reader) ==
    LET size == VarIntRead(reader)
    IN  IF ~size.ok THEN size
        ELSE IF size.value > MaxPacketSize
        THEN Fail("Receiving packet size would be too big")
        ELSE IF size.value < 0 THEN Fail(Panic)
        ELSE IF Len(size.rest) < size.value THEN Fail("Read expected packet size")
        ELSE LET buffer == SubSeq(size.rest, 1, size.value)
                 packet_id == VarIntRead(buffer)
             IN  IF ~packet_id.ok THEN Fail("Read packet id")
                 ELSE [ok |-> TRUE, id |-> packet_id.value, data |-> packet_id.rest,
                       rest |-> SubSeq(size.rest, size.value + 1, Len(size.rest))]

\* A frame whose size counts the body without the packet id.
write_with_body_length(packet_id, body) ==
    VarIntWrite(Len(body)) \o VarIntWrite(packet_id) \o body

\* Packet::write_with_header_to: the length of id and body, the id, the body.
write_with_header_to(packet_id, body) ==
    LET content == VarIntWrite(packet_id) \o body
    IN  VarIntWrite(Len(content)) \o content

\* ClientLoginStart::packet_id()
LoginStartId == 0

\* ClientHandshake::packet_id()
HandshakeId == 0

\* ClientLoginStart::from_cursor: the name, then the UUID.
ClientLoginStart_from_cursor(data) ==
    LET username == StringRead(data)
    IN  IF ~username.ok THEN username
        ELSE LET uuid == UUIDRead(username.rest)
             IN  IF ~uuid.ok THEN uuid
                 ELSE [ok |-> TRUE, username |-> username.value, uuid |-> uuid.value,
                       rest |-> uuid.rest]

\* ClientLoginStartOnlyName::from_cursor: the name only (the old format).
ClientLoginStartOnlyName_from_cursor(data) ==
    LET username == StringRead(data)
    IN  IF ~username.ok THEN username
        ELSE [ok |-> TRUE, username |-> username.value, rest |-> username.rest]

\* ClientHandshake::write_to
ClientHandshake_write_to(version, server_address, server_port, next_state) ==
    VarIntWrite(version) \o StringWrite(server_address)
        \o UnsignedShortWrite(server_port) \o VarIntWrite(next_state)

\* ClientHandshake::from_cursor
ClientHandshake_from_cursor(data) ==
    LET version == VarIntRead(data)
    IN  IF ~version.ok THEN version
        ELSE LET server_address == StringRead(version.rest)
             IN  IF ~server_address.ok THEN server_address
                 ELSE LET server_port == UnsignedShortRead(server_address.rest)
                      IN  IF ~server_port.ok THEN server_port
                          ELSE LET next_state == VarIntRead(server_port.rest)
                               IN  IF ~next_state.ok THEN next_state
                                   ELSE [ok |-> TRUE,
                                         protocol_version |-> version.value,
                                         server_address |-> server_address.value,
                                         server_port |-> server_port.value,
                                         next_state |-> next_state.value,
                                         rest |-> next_state.rest]

(***************************************************************************)
(* SpecLogin: handle_client from the connected target socket to the relay  *)
(* loop (main.rs:384-436), for one connection.                             *)
(***************************************************************************)

\* --target-host and --target-port
TargetHost == <<109, 99>>

TargetPort == 25565

\* --alias-host and --alias-port, when given
AliasHost == <<97>>

AliasPort == 25566

\* Protocol versions a client claims (one and two bytes as a VarInt).
ProtocolVersions == {47, 765}

\* A choice that never takes the alias.
unwrap_or_default(opt, default) == default

\* Option::unwrap_or
unwrap_or(opt, default) == IF opt = NoneOpt THEN default ELSE opt[1]

\* Sixteen bytes of a UUID.
Uuid == [i \in 1..16 |-> 16 + i]

\* k bytes the proxy has no field for.
Trailing(k) == [i \in 1..k |-> 7]

\* The name field as clients send it: "A", a two-byte character, a byte that
\* is not UTF-8, a length beyond the data, the empty name, no field at all,
\* a negative length.
Names == {<<1, 65>>, <<2, 195, 169>>, <<1, 255>>, <<3, 65>>, <<0>>, <<>>,
          <<255, 255, 255, 255, 15>>}

\* What follows the name: nothing or a UUID, and bytes of a later format.
Tails == {Trailing(k) : k \in 0..MaxTrailing}
            \cup {Uuid \o Trailing(k) : k \in 0..MaxTrailing}

Payloads == {n \o t : n \in Names, t \in Tails}

\* The packet id as the client encodes it: 0, 0 in two bytes, 1.
IdEncodings == {<<0>>, <<128, 0>>, <<1>>}

\* What the client has sent behind its first login frame.
Following == {<<>>, <<1, 0>>}

\* How the client frames: the size as VarInt::write does, the size in one
\* byte more, the connection closed one byte early, and sizes of 0, of
\* 8 MiB + 1, of -1 and of six bytes.
SizeForms == {"exact", "padded", "cut", "zero", "huge", "negative", "long"}

ClientStream(form, id_bytes, payload, following) ==
    LET content == id_bytes \o payload
        n == Len(content)
    IN  CASE form = "exact" -> VarIntWrite(n) \o content \o following
          [] form = "padded" -> <<n + 128, 0>> \o content \o following
          [] form = "cut" -> VarIntWrite(n) \o SubSeq(content, 1, n - 1)
          [] form = "zero" -> <<0>> \o content \o following
          [] form = "huge" -> <<129, 128, 128, 4>> \o content \o following
          [] form = "negative" -> <<255, 255, 255, 255, 15>> \o content \o following
          [] form = "long" -> <<255, 255, 255, 255, 255, 1>> \o content \o following

\* The target socket is connected; the client's first login frame is on its
\* way.
InitLogin ==
    /\ protocol_version \in ProtocolVersions
    /\ alias_host \in {NoneOpt, Some(AliasHost)}
    /\ alias_port \in {NoneOpt, Some(AliasPort)}
    /\ \E id_bytes \in IdEncodings, payload \in Payloads,
          following \in Following, form \in SizeForms :
          /\ login_sent = [id_bytes |-> id_bytes, payload |-> payload]
          /\ client_stream = ClientStream(form, id_bytes, payload, following)
    /\ lpc = "handshake"
    /\ initial_packets_buffer = <<>>
    /\ login_first_packet_id = NoneOpt
    /\ login_first_packet_data = <<>>
    /\ login_format = "none"
    /\ target_calls = <<>>
    /\ target_got = <<>>
    /\ login_result = "none"

\* A return of handle_client with an error.
LoginReturn(err) ==
    /\ lpc' = "failed"
    /\ login_result' = err

\* How a failed read ends the thread: a sixth byte of a VarInt is shifted by
\* 35 bits, which panics in a build with overflow checks and is refused
\* otherwise.
Outcomes(err) == IF err = VarIntTooBig THEN {VarIntTooBig, Panic} ELSE {err}

\* A write to the Cursor that puts the bytes in front.
CursorWriteFront(buffer, bytes) == bytes \o buffer

\* Write::write_all on a Cursor<Vec<u8>> whose position is at its end.
CursorWrite(buffer, bytes) == buffer \o bytes

\* The Handshake for the target is written into initial_packets_buffer.
BuildHandshake ==
    /\ lpc = "handshake"
    /\ initial_packets_buffer' =
          CursorWrite(initial_packets_buffer,
              write_with_header_to(HandshakeId,
                  ClientHandshake_write_to(protocol_version,
                                           unwrap_or(alias_host, TargetHost),
                                           unwrap_or(alias_port, TargetPort),
                                           2)))
    /\ lpc' = "read"
    /\ UNCHANGED <<protocol_version, alias_host, alias_port, login_sent,
                   client_stream, login_first_packet_id, login_first_packet_data,
                   login_format, target_calls, target_got, login_result>>
    /\ UNCHANGED nonLoginVars

\* protocol::read_raw_packet_id_and_data(&mut client)?
ReadFirstPacket ==
    /\ lpc = "read"
    /\ LET packet == read_raw_packet_id_and_data(client_stream)
       IN  IF packet.ok
           THEN /\ login_first_packet_id' = Some(packet.id)
                /\ login_first_packet_data' = packet.data
                /\ client_stream' = packet.rest
                /\ lpc' = "check_id"
                /\ UNCHANGED login_result
           ELSE /\ \E err \in Outcomes(packet.err) : LoginReturn(err)
                /\ UNCHANGED <<login_first_packet_id, login_first_packet_data,
                               client_stream>>
    /\ UNCHANGED <<protocol_version, alias_host, alias_port, login_sent,
                   initial_packets_buffer, login_format, target_calls, target_got>>
    /\ UNCHANGED nonLoginVars

\* A step that goes on to the decode whatever the packet id is.
SkipPacketIdCheck ==
    /\ lpc = "check_id"
    /\ lpc' = "parse"
    /\ UNCHANGED login_result
    /\ UNCHANGED <<protocol_version, alias_host, alias_port, login_sent,
                   client_stream, initial_packets_buffer, login_first_packet_id,
                   login_first_packet_data, login_format, target_calls, target_got>>
    /\ UNCHANGED nonLoginVars

\* if login_first_packet_id != ClientLoginStart::packet_id() { bail!(..) }
CheckPacketId ==
    /\ lpc = "check_id"
    /\ IF login_first_packet_id # Some(LoginStartId)
       THEN LoginReturn("Expect to receive Packet LoginStart")
       ELSE lpc' = "parse" /\ UNCHANGED login_result
    /\ UNCHANGED <<protocol_version, alias_host, alias_port, login_sent,
                   client_stream, initial_packets_buffer, login_first_packet_id,
                   login_first_packet_data, login_format, target_calls, target_got>>
    /\ UNCHANGED nonLoginVars

\* A decode that knows the new format only.
ParseNewFormatOnly ==
    /\ lpc = "parse"
    /\ LET new == ClientLoginStart_from_cursor(login_first_packet_data)
       IN  IF new.ok
           THEN login_format' = "new" /\ lpc' = "frame" /\ UNCHANGED login_result
           ELSE /\ \E err \in Outcomes(new.err) : LoginReturn(err)
                /\ UNCHANGED login_format
    /\ UNCHANGED <<protocol_version, alias_host, alias_port, login_sent,
                   client_stream, initial_packets_buffer, login_first_packet_id,
                   login_first_packet_data, target_calls, target_got>>
    /\ UNCHANGED nonLoginVars

\* The decode of the payload: ClientLoginStart, and when that fails
\* ClientLoginStartOnlyName, whose error is returned.
ParseLoginStart ==
    /\ lpc = "parse"
    /\ LET new == ClientLoginStart_from_cursor(login_first_packet_data)
           old == ClientLoginStartOnlyName_from_cursor(login_first_packet_data)
       IN  IF new.ok
           THEN login_format' = "new" /\ lpc' = "frame" /\ UNCHANGED login_result
           ELSE IF old.ok
           THEN login_format' = "legacy" /\ lpc' = "frame" /\ UNCHANGED login_result
           ELSE /\ \E err \in Outcomes(old.err) : LoginReturn(err)
                /\ UNCHANGED login_format
    /\ UNCHANGED <<protocol_version, alias_host, alias_port, login_sent,
                   client_stream, initial_packets_buffer, login_first_packet_id,
                   login_first_packet_data, target_calls, target_got>>
    /\ UNCHANGED nonLoginVars

\* A frame body made by writing the decoded fields again.
ReserializedCursor(packet_id, data) ==
    LET new == ClientLoginStart_from_cursor(data)
        old == ClientLoginStartOnlyName_from_cursor(data)
    IN  VarIntWrite(packet_id)
            \o (IF new.ok THEN StringWrite(new.username) \o new.uuid
                ELSE IF old.ok THEN StringWrite(old.username)
                ELSE <<>>)

\* The cursor of main.rs:427-429: the id as a VarInt, then the received data.
RawCursor(packet_id, data) == CursorWrite(VarIntWrite(packet_id), data)

\* The received packet is framed again behind the Handshake: the cursor's
\* length as a VarInt, then the cursor.
FrameRawPacket ==
    /\ lpc = "frame"
    /\ LET cursor == RawCursor(login_first_packet_id[1], login_first_packet_data)
       IN  initial_packets_buffer' =
              CursorWrite(CursorWrite(initial_packets_buffer, VarIntWrite(Len(cursor))),
                          cursor)
    /\ lpc' = "write"
    /\ UNCHANGED <<protocol_version, alias_host, alias_port, login_sent,
                   client_stream, login_first_packet_id, login_first_packet_data,
                   login_format, target_calls, target_got, login_result>>
    /\ UNCHANGED nonLoginVars

\* target.write_all(&initial_packets_buffer.into_inner())?: the socket takes
\* the whole buffer, or fails after taking a part of it.
WriteInitialPackets ==
    /\ lpc = "write"
    /\ target_calls' = Append(target_calls, initial_packets_buffer)
    /\ \/ /\ target_got' = target_got \o initial_packets_buffer
          /\ lpc' = "relay"
          /\ UNCHANGED login_result
       \/ /\ \E n \in 0..(Len(initial_packets_buffer) - 1) :
                target_got' = target_got \o SubSeq(initial_packets_buffer, 1, n)
          /\ LoginReturn("Write to target")
    /\ UNCHANGED <<protocol_version, alias_host, alias_port, login_sent,
                   client_stream, initial_packets_buffer, login_first_packet_id,
                   login_first_packet_data, login_format>>
    /\ UNCHANGED nonLoginVars

NextLogin ==
    \/ BuildHandshake
    \/ ReadFirstPacket
    \/ CheckPacketId
    \/ ParseLoginStart
    \/ FrameRawPacket
    \/ WriteInitialPackets

LoginInit == InitLogin /\ PoolIdle /\ RelayIdle /\ SessionIdle /\ CodecIdle

SpecLogin == LoginInit /\ [][NextLogin]_vars

(***************************************************************************)
(* Long, the status packets and the status document (types.rs,             *)
(* client/status.rs, server/status.rs, main.rs:280-303).                   *)
(***************************************************************************)

\* Longest array a status document of the target carries where the suffix
\* goes.
MaxExtra == 1

\* Bit k of a byte or of another natural number.
Bit(n, k) == (n \div 2^k) % 2

\* The byte made of the eight bits of an i64 from bit lo on. An i64 is kept
\* as its 64 bits, bit 0 the least significant.
BitsToByte(v, lo) ==
    v[lo] + 2 * v[lo + 1] + 4 * v[lo + 2] + 8 * v[lo + 3] + 16 * v[lo + 4]
        + 32 * v[lo + 5] + 64 * v[lo + 6] + 128 * v[lo + 7]

\* Long::read_as_mc_type: eight bytes, i64::from_be_bytes.
LongRead(bytes) ==
    IF Len(bytes) < 8 THEN Fail(UnexpectedEof)
    ELSE [ok |-> TRUE,
          value |-> [k \in 0..63 |-> Bit(bytes[8 - (k \div 8)], k % 8)],
          rest |-> SubSeq(bytes, 9, Len(bytes))]

\* The bytes of an i64 with the least significant first.
LongWriteLittleEndian(v) == [j \in 1..8 |-> BitsToByte(v, 8 * (j - 1))]

\* Long::write_as_mc_type: i64::to_be_bytes.
LongWrite(v) == [j \in 1..8 |-> BitsToByte(v, 8 * (8 - j))]

\* The i64 0, the payload of the proxy's own ping.
I64Zero == [k \in 0..63 |-> 0]

\* A frame on a socket: the packet id and the body behind it.
Frame(packet_id, data) == [id |-> packet_id, data |-> data]

\* A read of the next frame that takes it whatever its packet id is.
read_any_packet_from(reader, packet_id) ==
    IF reader = <<>> THEN Fail(UnexpectedEof)
    ELSE [ok |-> TRUE, data |-> Head(reader).data, rest |-> Tail(reader)]

\* Packet::read_with_header_from, on frames: the next frame of the reader,
\* whose id must be the packet's; the caller decodes the body.
read_with_header_from(reader, packet_id) ==
    IF reader = <<>> THEN Fail(UnexpectedEof)
    ELSE IF Head(reader).id # packet_id THEN Fail("Expected packet id")
    ELSE [ok |-> TRUE, data |-> Head(reader).data, rest |-> Tail(reader)]

\* ClientStatusRequest::packet_id() and ServerStatusResponsePacket::packet_id()
StatusId == 0

\* ClientStatusPing::packet_id() and ServerStatusPongPacket::packet_id()
PingId == 1

\* ClientStatusPing::from_cursor and ServerStatusPongPacket::from_cursor
ClientStatusPing_from_cursor(data) == LongRead(data)

\* ClientStatusPing::write_to and ServerStatusPongPacket::write_to
ServerStatusPongPacket_write_to(payload) == LongWrite(payload)

\* serde_json::Value: a record whose one field names the variant.
JNull == [null |-> TRUE]

JBool(b) == [bool |-> b]

JNumber(n) == [number |-> n]

JString(s) == [string |-> s]

JArray(a) == [array |-> a]

\* An object is the record of its members.
JObject(o) == [object |-> o]

\* Value::is_object, is_string, is_array
IsObject(value) == "object" \in DOMAIN value

IsString(value) == "string" \in DOMAIN value

IsArray(value) == "array" \in DOMAIN value

\* A JSON text is kept as the value it denotes; a text that is no JSON
\* denotes none.
JsonText(value) == [valid |-> TRUE, value |-> value]

InvalidJson == [valid |-> FALSE]

\* serde_json::from_str
from_str(text) ==
    IF text.valid THEN [ok |-> TRUE, value |-> text.value] ELSE Fail("serde_json")

\* serde_json::to_string
to_string(value) == JsonText(value)

\* format!("§8[§9Stupid MC Proxy: §3{ping}ms§8]"), "&" standing for "§".
Suffix(ms) == "&8[&9Stupid MC Proxy: &3" \o ToString(ms) \o "ms&8]"

NotAnObject == "Queries status was not a JSON-Object!"

NoDescription == "Status did not contain description!"

ExtraNotAnArray == "description.extra in status was not an array!"

DescriptionOfOtherType == "description in status was neither a String, Object nor or an Array!"

\* The shape errors of the rewriting.
ShapeErrors == {NotAnObject, NoDescription, ExtraNotAnArray, DescriptionOfOtherType}

\* A rewriting that makes the extra array when the description has none.
RewriteStatusLenient(doc, suffix) ==
    IF ~IsObject(doc) THEN Fail(NotAnObject)
    ELSE IF "description" \notin DOMAIN doc.object THEN Fail(NoDescription)
    ELSE LET description == doc.object.description
         IN  IF IsString(description)
             THEN [ok |-> TRUE,
                   value |-> [doc EXCEPT !.object.description.string = @ \o suffix]]
             ELSE IF IsObject(description)
             THEN [ok |-> TRUE,
                   value |-> [doc EXCEPT !.object.description.object =
                                [k \in DOMAIN @ \cup {"extra"} |->
                                    IF k = "extra" THEN JArray(<<JString(suffix)>>)
                                    ELSE @[k]]]]
             ELSE IF IsArray(description)
             THEN [ok |-> TRUE,
                   value |-> [doc EXCEPT !.object.description.array =
                                Append(@, JString(suffix))]]
             ELSE Fail(DescriptionOfOtherType)

\* The rewriting of the status document, main.rs:282-303.
RewriteStatus(doc, suffix) ==
    IF ~IsObject(doc) THEN Fail(NotAnObject)
    ELSE IF "description" \notin DOMAIN doc.object THEN Fail(NoDescription)
    ELSE LET description == doc.object.description
         IN  IF IsString(description)
             THEN [ok |-> TRUE,
                   value |-> [doc EXCEPT !.object.description.string = @ \o suffix]]
             ELSE IF IsObject(description)
             THEN IF /\ "extra" \in DOMAIN description.object
                     /\ IsArray(description.object.extra)
                  THEN [ok |-> TRUE,
                        value |-> [doc EXCEPT !.object.description.object.extra.array =
                                     Append(@, JString(suffix))]]
                  ELSE Fail(ExtraNotAnArray)
             ELSE IF IsArray(description)
             THEN [ok |-> TRUE,
                   value |-> [doc EXCEPT !.object.description.array =
                                Append(@, JString(suffix))]]
             ELSE Fail(DescriptionOfOtherType)

(***************************************************************************)
(* SpecSession: handle_client of one connection (main.rs:214-449), one     *)
(* socket operation a step. What the peers send is drawn from small sets.  *)
(***************************************************************************)

\* The host and port a client puts in its own Handshake.
ClientHost == <<120>>

ClientPort == 4242

\* next_state values a client puts in its Handshake: Status, Login, others.
ClientNextStates == {0, 1, 2, 3}

ClientHandshakes ==
    [protocol_version : ProtocolVersions, server_address : {ClientHost},
     server_port : {ClientPort}, next_state : ClientNextStates]

\* The body of the client's Handshake.
ClientHandshakeBody(h) ==
    ClientHandshake_write_to(h.protocol_version, h.server_address, h.server_port,
                             h.next_state)

\* How the connection begins: the Handshake, nothing at all, a frame with
\* another id, a Handshake that lacks its last byte.
HandshakeForms == {"good", "silent", "wrong_id", "short"}

\* The payloads of a client's Ping, as the eight bytes on the wire.
PingPayloads ==
    {<<0, 0, 0, 0, 0, 0, 0, 0>>, <<255, 255, 255, 255, 255, 255, 255, 255>>,
     <<1, 2, 3, 4, 5, 6, 7, 8>>, <<128, 0, 0, 0, 0, 0, 0, 1>>}

\* What a client sends behind a Handshake for the status: the StatusRequest
\* and the Ping, also with bytes the packets have no field for, without the
\* Ping, with a Ping of seven bytes, nothing, or a Ping at once.
StatusTails ==
    {<<Frame(StatusId, <<>>), Frame(PingId, p)>> : p \in PingPayloads}
        \cup {<<Frame(StatusId, <<9>>), Frame(PingId, <<1, 2, 3, 4, 5, 6, 7, 8, 9>>)>>,
              <<Frame(StatusId, <<>>)>>,
              <<Frame(StatusId, <<>>), Frame(PingId, <<1, 2, 3, 4, 5, 6, 7>>)>>,
              <<>>,
              <<Frame(PingId, <<1, 2, 3, 4, 5, 6, 7, 8>>)>>}

\* The LoginStart payloads of a client that logs in: the new format, the old
\* one with a byte behind the name, a name that is not UTF-8.
SessionLogins == {<<1, 65>> \o Uuid, <<1, 65, 7>>, <<1, 255>>}

ClientFrames(form, h, tail) ==
    CASE form = "good" -> <<Frame(HandshakeId, ClientHandshakeBody(h))>> \o tail
      [] form = "silent" -> <<>>
      [] form = "wrong_id" -> <<Frame(1, ClientHandshakeBody(h))>> \o tail
      [] form = "short" ->
           <<Frame(HandshakeId, SubSeq(ClientHandshakeBody(h), 1,
                                       Len(ClientHandshakeBody(h)) - 1))>>

\* n strings of an array the target put into its description.
Strs(n) == [i \in 1..n |-> JString("x")]

\* The descriptions a target sends: strings, arrays, objects with an extra
\* array, and the shapes that cannot take the suffix.
Descriptions ==
    {JString("A"), JString("")}
        \cup {JArray(Strs(n)) : n \in 0..MaxExtra}
        \cup {JObject([text |-> JString("A"), extra |-> JArray(Strs(n))]) :
                 n \in 0..MaxExtra}
        \cup {JObject([text |-> JString("A")]),
              JObject([text |-> JString("A"), extra |-> JString("x")]),
              JObject([text |-> JString("A"), extra |-> JNull]),
              JNumber(1), JBool(TRUE), JNull}

\* A status document with the given description and the target's other
\* fields.
StatusWith(description) ==
    JObject([description |-> description,
             version |-> JObject([name |-> JString("1.20"), protocol |-> JNumber(765)]),
             players |-> JObject([max |-> JNumber(20), online |-> JNumber(0)])])

StatusDocs ==
    {StatusWith(d) : d \in Descriptions}
        \cup {JObject([version |-> JObject([name |-> JString("1.20")])]),
              JArray(<<JString("A")>>), JString("A"), JNumber(1), JNull}

\* The JSON string of the target's StatusResponse.
TargetTexts == {JsonText(d) : d \in StatusDocs} \cup {InvalidJson}

\* Milliseconds between the proxy's ping and the target's pong.
Pings == {0, 12}

\* A connection was accepted and handle_client starts.
InitSession ==
    /\ spc = "resolve"
    /\ target_addr = NoneOpt
    /\ handshake = NoneOpt
    /\ to_client = <<>>
    /\ target_conns = 0
    /\ query_out = <<>>
    /\ json_response = NoneOpt
    /\ status = NoneOpt
    /\ ping = 0
    /\ ping_request = NoneOpt
    /\ session_source = "none"
    /\ events = <<>>
    /\ session_result = "none"
    /\ alias_host \in {NoneOpt, Some(AliasHost)}
    /\ alias_port \in {NoneOpt, Some(AliasPort)}
    /\ \E h \in ClientHandshakes, form \in HandshakeForms :
          /\ client_handshake = Some(h)
          /\ IF h.next_state = 2
             THEN /\ from_client = ClientFrames(form, h, <<>>)
                  /\ \E payload \in SessionLogins :
                        /\ login_sent = [id_bytes |-> <<0>>, payload |-> payload]
                        /\ client_stream = ClientStream("exact", <<0>>, payload, <<>>)
             ELSE /\ \E tail \in StatusTails : from_client = ClientFrames(form, h, tail)
                  /\ login_sent = [id_bytes |-> <<>>, payload |-> <<>>]
                  /\ client_stream = <<>>
    /\ client_sent = from_client
    /\ protocol_version = 0
    /\ lpc = "idle"
    /\ initial_packets_buffer = <<>>
    /\ login_first_packet_id = NoneOpt
    /\ login_first_packet_data = <<>>
    /\ login_format = "none"
    /\ target_calls = <<>>
    /\ target_got = <<>>
    /\ login_result = "none"

\* handle_client goes on to the step next, having done did on its sockets.
Step(next, did) ==
    /\ spc' = next
    /\ events' = events \o did
    /\ UNCHANGED session_result

\* A return of handle_client: its sockets are dropped with it.
SessionReturn(res, did) ==
    /\ spc' = "closed"
    /\ session_result' = res
    /\ events' = events \o did \o <<"close">>

\* A failed write of a frame may have put a part of it on the wire.
Partial(packet_id) == [id |-> packet_id, partial |-> TRUE]

\* "Client requested next state {}, which is not supported!"
UnsupportedNextState == "Client requested next state, which is not supported!"

\* A choice that takes every next_state but Status for Login.
RouteLoginByDefault(next_state) ==
    IF next_state = 1 THEN "status_request" ELSE "acquire"

\* Where handle_client goes after the Handshake: main.rs:258 and 317.
Route(next_state) ==
    IF next_state = 1 THEN "status_request"
    ELSE IF next_state # 2 THEN "unsupported"
    ELSE "acquire"

\* The lookup of the target host: the first address of each family; the
\* IPv4 one is the target_addr when there is one.
Resolve ==
    /\ spc = "resolve"
    /\ \/ /\ SessionReturn("getaddrinfo", <<"resolve">>)
          /\ UNCHANGED target_addr
       \/ \E v4 \in BOOLEAN, v6 \in BOOLEAN :
            IF ~v4 /\ ~v6
            THEN /\ SessionReturn("No address found for target host!", <<"resolve">>)
                 /\ UNCHANGED target_addr
            ELSE /\ target_addr' = Some(IF v4 THEN "v4" ELSE "v6")
                 /\ Step("handshake", <<"resolve">>)
    /\ UNCHANGED <<from_client, client_handshake, client_sent, handshake, to_client,
                   target_conns, query_out, json_response, status, ping,
                   ping_request, session_source>>
    /\ UNCHANGED loginVars
    /\ UNCHANGED nonSessionVars

\* ClientHandshake::read_with_header_from(&mut client), and the choice of the
\* path by next_state.
ReadHandshake ==
    /\ spc = "handshake"
    /\ LET frame == read_with_header_from(from_client, HandshakeId)
           decoded == ClientHandshake_from_cursor(frame.data)
       IN  IF ~frame.ok \/ ~decoded.ok
           THEN /\ SessionReturn("Read handshake", <<>>)
                /\ UNCHANGED <<from_client, handshake>>
           ELSE /\ from_client' = frame.rest
                /\ handshake' = Some([protocol_version |-> decoded.protocol_version,
                                      server_address |-> decoded.server_address,
                                      server_port |-> decoded.server_port,
                                      next_state |-> decoded.next_state])
                /\ IF Route(decoded.next_state) = "unsupported"
                   THEN SessionReturn(UnsupportedNextState, <<"read_handshake">>)
                   ELSE Step(Route(decoded.next_state), <<"read_handshake">>)
    /\ UNCHANGED <<target_addr, client_handshake, client_sent, to_client, target_conns,
                   query_out, json_response, status, ping, ping_request,
                   session_source>>
    /\ UNCHANGED loginVars
    /\ UNCHANGED nonSessionVars

\* ClientStatusRequest::read_with_header_from(&mut client)?
ReadStatusRequest ==
    /\ spc = "status_request"
    /\ LET frame == read_with_header_from(from_client, StatusId)
       IN  IF ~frame.ok
           THEN /\ SessionReturn("Read status request", <<>>)
                /\ UNCHANGED from_client
           ELSE /\ from_client' = frame.rest
                /\ Step("query_connect", <<"read_client_status_request">>)
    /\ UNCHANGED <<target_addr, client_handshake, client_sent, handshake, to_client,
                   target_conns, query_out, json_response, status, ping,
                   ping_request, session_source>>
    /\ UNCHANGED loginVars
    /\ UNCHANGED nonSessionVars

\* query_target_status_and_ping: TcpStream::connect(target_addr)?
QueryConnect ==
    /\ spc = "query_connect"
    /\ \/ /\ target_conns' = target_conns + 1
          /\ Step("query_handshake", <<"connect_target">>)
       \/ /\ SessionReturn("connect", <<>>)
          /\ UNCHANGED target_conns
    /\ UNCHANGED <<target_addr, from_client, client_handshake, client_sent, handshake,
                   to_client, query_out, json_response, status, ping,
                   ping_request, session_source>>
    /\ UNCHANGED loginVars
    /\ UNCHANGED nonSessionVars

\* The write of a frame to the target of the status query: it goes out, or
\* the write fails.
QueryWrite(frame, next, did) ==
    \/ /\ query_out' = Append(query_out, frame)
       /\ Step(next, <<did>>)
    \/ /\ query_out' \in {query_out, Append(query_out, Partial(frame.id))}
       /\ SessionReturn("Write to target", <<>>)

\* The Handshake of the status query.
QuerySendHandshake ==
    /\ spc = "query_handshake"
    /\ QueryWrite(Frame(HandshakeId,
                        ClientHandshake_write_to(handshake[1].protocol_version,
                                                 unwrap_or(alias_host, TargetHost),
                                                 unwrap_or(alias_port, TargetPort),
                                                 1)),
                  "query_request", "send_target_handshake")
    /\ UNCHANGED <<target_addr, from_client, client_handshake, client_sent, handshake,
                   to_client, target_conns, json_response, status, ping,
                   ping_request, session_source>>
    /\ UNCHANGED loginVars
    /\ UNCHANGED nonSessionVars

\* ClientStatusRequest {}.write_with_header_to(&mut target)?
QuerySendRequest ==
    /\ spc = "query_request"
    /\ QueryWrite(Frame(StatusId, <<>>), "query_response", "send_target_status_request")
    /\ UNCHANGED <<target_addr, from_client, client_handshake, client_sent, handshake,
                   to_client, target_conns, json_response, status, ping,
                   ping_request, session_source>>
    /\ UNCHANGED loginVars
    /\ UNCHANGED nonSessionVars

\* ServerStatusResponsePacket::read_with_header_from(&mut target)?: the
\* target answers with a JSON string, or the read fails.
QueryReadResponse ==
    /\ spc = "query_response"
    /\ \/ \E text \in TargetTexts :
            /\ json_response' = Some(text)
            /\ Step("query_ping", <<"read_target_status_response">>)
       \/ /\ SessionReturn("Read status response", <<>>)
          /\ UNCHANGED json_response
    /\ UNCHANGED <<target_addr, from_client, client_handshake, client_sent, handshake,
                   to_client, target_conns, query_out, status, ping,
                   ping_request, session_source>>
    /\ UNCHANGED loginVars
    /\ UNCHANGED nonSessionVars

\* ClientStatusPing { payload: 0 }.write_with_header_to(&mut target)?
QuerySendPing ==
    /\ spc = "query_ping"
    /\ QueryWrite(Frame(PingId, LongWrite(I64Zero)), "query_pong", "send_target_ping")
    /\ UNCHANGED <<target_addr, from_client, client_handshake, client_sent, handshake,
                   to_client, target_conns, json_response, status, ping,
                   ping_request, session_source>>
    /\ UNCHANGED loginVars
    /\ UNCHANGED nonSessionVars

\* ServerStatusPongPacket::read_with_header_from(&mut target)?, whose payload
\* is not looked at, and the time it took.
QueryReadPong ==
    /\ spc = "query_pong"
    /\ \/ /\ ping' \in Pings
          /\ Step("query_parse", <<"read_target_pong">>)
       \/ /\ SessionReturn("Read pong", <<>>)
          /\ UNCHANGED ping
    /\ UNCHANGED <<target_addr, from_client, client_handshake, client_sent, handshake,
                   to_client, target_conns, query_out, json_response, status,
                   ping_request, session_source>>
    /\ UNCHANGED loginVars
    /\ UNCHANGED nonSessionVars

\* serde_json::from_str(&status.json_response)?, the last line of
\* query_target_status_and_ping.
QueryParse ==
    /\ spc = "query_parse"
    /\ LET parsed == from_str(json_response[1])
       IN  IF parsed.ok
           THEN status' = Some(parsed.value) /\ Step("rewrite", <<>>)
           ELSE SessionReturn(parsed.err, <<>>) /\ UNCHANGED status
    /\ UNCHANGED <<target_addr, from_client, client_handshake, client_sent, handshake,
                   to_client, target_conns, query_out, json_response, ping,
                   ping_request, session_source>>
    /\ UNCHANGED loginVars
    /\ UNCHANGED nonSessionVars

\* A rewriting that sends the client the target's own StatusResponse when it
\* cannot take the suffix.
RewriteOrPassOn ==
    /\ spc = "rewrite"
    /\ LET rewritten == RewriteStatus(status[1], Suffix(ping))
       IN  IF rewritten.ok
           THEN /\ status' = Some(rewritten.value)
                /\ Step("respond", <<>>)
                /\ UNCHANGED to_client
           ELSE /\ SessionReturn(rewritten.err, <<>>)
                /\ to_client' = <<[id |-> StatusId, json_response |-> json_response[1]]>>
                /\ UNCHANGED status
    /\ UNCHANGED <<target_addr, from_client, client_handshake, client_sent,
                   handshake, target_conns, query_out, json_response, ping,
                   ping_request, session_source>>
    /\ UNCHANGED loginVars
    /\ UNCHANGED nonSessionVars

\* The suffix is put into the description of the status, or the shape of
\* the status is refused.
Rewrite ==
    /\ spc = "rewrite"
    /\ LET rewritten == RewriteStatus(status[1], Suffix(ping))
       IN  IF rewritten.ok
           THEN status' = Some(rewritten.value) /\ Step("respond", <<>>)
           ELSE SessionReturn(rewritten.err, <<>>) /\ UNCHANGED status
    /\ UNCHANGED <<target_addr, from_client, client_handshake, client_sent, handshake,
                   to_client, target_conns, query_out, json_response, ping,
                   ping_request, session_source>>
    /\ UNCHANGED loginVars
    /\ UNCHANGED nonSessionVars

\* The write of a frame to the client.
ClientWrite(frame, did) ==
    \/ /\ to_client' = Append(to_client, frame)
       /\ did
    \/ /\ to_client' \in {to_client, Append(to_client, Partial(frame.id))}
       /\ SessionReturn("Write to client", <<>>)

\* The StatusResponse goes to the client as the target sent it, while the
\* target's Pong is still awaited.
SendStatusResponseEarly ==
    /\ spc = "query_pong"
    /\ ClientWrite([id |-> StatusId, json_response |-> json_response[1]],
                   Step("client_ping", <<"send_client_status_response">>))
    /\ UNCHANGED <<target_addr, from_client, client_handshake, client_sent, handshake,
                   target_conns, query_out, json_response, status, ping,
                   ping_request, session_source>>
    /\ UNCHANGED loginVars
    /\ UNCHANGED nonSessionVars

\* ServerStatusResponsePacket { json_response: to_string(&status)? }
SendStatusResponse ==
    /\ spc = "respond"
    /\ ClientWrite([id |-> StatusId, json_response |-> to_string(status[1])],
                   Step("client_ping", <<"send_client_status_response">>))
    /\ UNCHANGED <<target_addr, from_client, client_handshake, client_sent, handshake,
                   target_conns, query_out, json_response, status, ping,
                   ping_request, session_source>>
    /\ UNCHANGED loginVars
    /\ UNCHANGED nonSessionVars

\* ClientStatusPing::read_with_header_from(&mut client)?
ReadClientPing ==
    /\ spc = "client_ping"
    /\ LET frame == read_with_header_from(from_client, PingId)
           decoded == ClientStatusPing_from_cursor(frame.data)
       IN  IF ~frame.ok \/ ~decoded.ok
           THEN /\ SessionReturn("Read ping", <<>>)
                /\ UNCHANGED <<from_client, ping_request>>
           ELSE /\ from_client' = frame.rest
                /\ ping_request' = Some(decoded.value)
                /\ Step("pong", <<"read_client_ping">>)
    /\ UNCHANGED <<target_addr, client_handshake, client_sent, handshake, to_client,
                   target_conns, query_out, json_response, status, ping,
                   session_source>>
    /\ UNCHANGED loginVars
    /\ UNCHANGED nonSessionVars

\* ServerStatusPongPacket { payload: ping_request.payload }, and return Ok.
SendPong ==
    /\ spc = "pong"
    /\ ClientWrite(Frame(PingId, ServerStatusPongPacket_write_to(ping_request[1])),
                   SessionReturn("Ok", <<"send_client_pong">>))
    /\ UNCHANGED <<target_addr, from_client, client_handshake, client_sent, handshake,
                   target_conns, query_out, json_response, status, ping,
                   ping_request, session_source>>
    /\ UNCHANGED loginVars
    /\ UNCHANGED nonSessionVars

\* get_available_source_ip for the families of the target: a handle, no
\* handle because no source address is configured, or none free, and then
\* the LoginDisconnect for the client.
AllocateSource ==
    /\ spc = "acquire"
    /\ \/ /\ session_source' \in {"granted", "default"}
          /\ Step("connect", <<"allocate_source">>)
          /\ UNCHANGED to_client
       \/ /\ session_source' = "exhausted"
          /\ ClientWrite([id |-> 0, reason |-> "StupidMCProxy Error: " \o OutOfSourceIPs],
                         SessionReturn(OutOfSourceIPs, <<"allocate_source", "send_client_disconnect">>))
    /\ UNCHANGED <<target_addr, from_client, client_handshake, client_sent, handshake,
                   target_conns, query_out, json_response, status, ping,
                   ping_request>>
    /\ UNCHANGED loginVars
    /\ UNCHANGED nonSessionVars

\* The socket to the target is bound and connected; the interception of
\* the login begins with the client's protocol version.
ConnectLoginTarget ==
    /\ spc = "connect"
    /\ \/ /\ target_conns' = target_conns + 1
          /\ Step("login", <<"connect_target">>)
          /\ lpc' = "handshake"
          /\ protocol_version' = handshake[1].protocol_version
       \/ /\ SessionReturn("Connect to target", <<>>)
          /\ UNCHANGED <<target_conns, lpc, protocol_version>>
    /\ UNCHANGED <<target_addr, from_client, client_handshake, client_sent, handshake,
                   to_client, query_out, json_response, status, ping,
                   ping_request, session_source>>
    /\ UNCHANGED <<alias_host, alias_port, login_sent, client_stream,
                   initial_packets_buffer, login_first_packet_id,
                   login_first_packet_data, login_format, target_calls,
                   target_got, login_result>>
    /\ UNCHANGED nonSessionVars

NextSession ==
    \/ Resolve
    \/ ReadHandshake
    \/ ReadStatusRequest
    \/ QueryConnect
    \/ QuerySendHandshake
    \/ QuerySendRequest
    \/ QueryReadResponse
    \/ QuerySendPing
    \/ QueryReadPong
    \/ QueryParse
    \/ Rewrite
    \/ SendStatusResponse
    \/ ReadClientPing
    \/ SendPong
    \/ AllocateSource
    \/ ConnectLoginTarget
    \/ BuildHandshake
    \/ ReadFirstPacket
    \/ CheckPacketId
    \/ ParseLoginStart
    \/ FrameRawPacket
    \/ WriteInitialPackets

SessionInit == InitSession /\ PoolIdle /\ RelayIdle /\ CodecIdle

SpecSession == SessionInit /\ [][NextSession]_vars

(***************************************************************************)
(* SpecVarInt: a VarInt written by write_as_mc_type and read back by       *)
(* read_as_mc_type, as the tests of types.rs do it, over i32 values at     *)
(* every boundary of a group of seven bits.                                *)
(***************************************************************************)

\* Bytes in the reader behind the encoded number, at most.
MaxBehind == 1

\* The width of an i32.
IntBits == 32

\* i32::MAX and i32::MIN
IntMax == (2^(IntBits - 2) - 1) + 2^(IntBits - 2)

IntMin == (-IntMax) - 1

\* The i32 values written: the numbers of the tests, and around every power
\* of two the values on both sides, positive and negative.
VarIntSamples ==
    {0, 1, 2, 100, 127, 128, 255, 256, 1000, 12345, 2000123, 2097151, -1, -123,
     IntMax, IntMin}
        \cup {2^k : k \in 0..(IntBits - 2)}
        \cup {2^k - 1 : k \in 0..(IntBits - 2)}
        \cup {-(2^k) : k \in 0..(IntBits - 2)}
        \cup {-(2^k) - 1 : k \in 0..(IntBits - 2)}

\* What the reader holds behind the number.
Behinds == {[i \in 1..n |-> 255] : n \in 0..MaxBehind}

InitVarInt ==
    /\ cpc = "write"
    /\ test_number \in VarIntSamples
    /\ behind \in Behinds
    /\ written = <<>>
    /\ read_back = NoneOpt

\* test_number.write_as_mc_type(&mut data_cur)
WriteVarInt ==
    /\ cpc = "write"
    /\ written' = VarIntWrite(test_number)
    /\ cpc' = "read"
    /\ UNCHANGED <<test_number, behind, read_back>>
    /\ UNCHANGED nonCodecVars

\* VarInt::read_as_mc_type(&mut data_cur)
ReadVarInt ==
    /\ cpc = "read"
    /\ read_back' = Some(VarIntRead(written \o behind))
    /\ cpc' = "done"
    /\ UNCHANGED <<test_number, behind, written>>
    /\ UNCHANGED nonCodecVars

NextVarInt == WriteVarInt \/ ReadVarInt

VarIntInit == InitVarInt /\ PoolIdle /\ RelayIdle /\ LoginIdle /\ SessionIdle

SpecVarInt == VarIntInit /\ [][NextVarInt]_vars

(***************************************************************************)
(* SpecVarLong: the same for a VarLong. An i64 is kept as its 64 bits, bit *)
(* 0 the least significant, bit 63 the sign.                               *)
(***************************************************************************)

\* The width of an i64.
LongBits == 64

\* "VarLong is too big"
VarLongTooBig == "VarLong is too big"

\* The i64 with exactly the bits of the set S set.
FromBits(S) == [k \in 0..(LongBits - 1) |-> IF k \in S THEN 1 ELSE 0]

\* The i64 of a number from 0 to i32::MAX.
I64(n) == FromBits({k \in 0..(IntBits - 2) : Bit(n, k) = 1})

\* -n as an i64, for n from 1 to i32::MAX: the complement of n - 1.
I64Neg(n) == [k \in 0..(LongBits - 1) |-> 1 - I64(n - 1)[k]]

\* The groups of a shift that carries the sign along (>> on an i64).
LongSeptetOfSigned(v, k) ==
    LET bit(b) == IF b < LongBits THEN v[b] ELSE v[LongBits - 1]
    IN  bit(7 * k) + 2 * bit(7 * k + 1) + 4 * bit(7 * k + 2) + 8 * bit(7 * k + 3)
            + 16 * bit(7 * k + 4) + 32 * bit(7 * k + 5) + 64 * bit(7 * k + 6)

\* (value >> 7k) & 0x7F of the i64 taken as a u64: bits 7k .. 7k+6, zeros
\* coming in from above.
LongSeptet(v, k) ==
    LET bit(b) == IF b < LongBits THEN v[b] ELSE 0
    IN  bit(7 * k) + 2 * bit(7 * k + 1) + 4 * bit(7 * k + 2) + 8 * bit(7 * k + 3)
            + 16 * bit(7 * k + 4) + 32 * bit(7 * k + 5) + 64 * bit(7 * k + 6)

\* value >> 7k is zero.
LongShiftedOut(v, k) == \A b \in (7 * k)..(LongBits - 1) : v[b] = 0

\* VarLong::write_as_mc_type
RECURSIVE VarLongWriteFrom(_, _)
VarLongWriteFrom(v, k) ==
    IF LongShiftedOut(v, k + 1)
    THEN <<LongSeptet(v, k)>>
    ELSE <<LongSeptet(v, k) + 128>> \o VarLongWriteFrom(v, k + 1)

VarLongWrite(v) == VarLongWriteFrom(v, 0)

\* VarLong::read_as_mc_type: result |= value << (7 * num_read) on an i64,
\* the bits shifted beyond bit 63 being lost; an eleventh byte is refused.
RECURSIVE VarLongReadFrom(_, _, _)
VarLongReadFrom(bytes, num_read, acc) ==
    IF bytes = <<>> THEN Fail(UnexpectedEof)
    ELSE IF num_read >= 10 THEN Fail(VarLongTooBig)
    ELSE LET low == Head(bytes) % 128
             shifted == [b \in 0..(LongBits - 1) |->
                            IF b >= 7 * num_read /\ b <= 7 * num_read + 6
                            THEN IF acc[b] = 1 \/ Bit(low, b - 7 * num_read) = 1
                                 THEN 1 ELSE 0
                            ELSE acc[b]]
         IN  IF Head(bytes) >= 128
             THEN VarLongReadFrom(Tail(bytes), num_read + 1, shifted)
             ELSE [ok |-> TRUE, value |-> shifted, rest |-> Tail(bytes)]

VarLongRead(bytes) == VarLongReadFrom(bytes, 0, I64Zero)

\* The i64 values written: the numbers of the tests, and around every power
\* of two the values on both sides, positive and negative, which has
\* i64::MAX, -1 and i64::MIN among them.
VarLongSamples ==
    {I64(n) : n \in {0, 1, 2, 100, 127, 128, 255, 256, 1000, 12345, 2000123, IntMax}}
        \cup {I64Neg(123), I64Neg(IntMax),
              FromBits({0, 1, 3, 4, 5, 6, 11, 14, 15, 16, 17, 18, 20, 27, 29, 31, 34}),
              FromBits(({0, 2, 7, 8, 9, 10, 12, 13, 19} \cup (21..26)
                            \cup {28, 30, 32, 33}) \cup (35..63))}
        \cup {FromBits({k}) : k \in 0..(LongBits - 1)}
        \cup {FromBits(0..(k - 1)) : k \in 0..LongBits}
        \cup {FromBits(k..(LongBits - 1)) : k \in 0..(LongBits - 1)}
        \cup {FromBits((0..(LongBits - 1)) \ {k}) : k \in 0..(LongBits - 1)}

InitVarLong ==
    /\ cpc = "write"
    /\ test_number \in VarLongSamples
    /\ behind \in Behinds
    /\ written = <<>>
    /\ read_back = NoneOpt

\* test_number.write_as_mc_type(&mut data_cur)
WriteVarLong ==
    /\ cpc = "write"
    /\ written' = VarLongWrite(test_number)
    /\ cpc' = "read"
    /\ UNCHANGED <<test_number, behind, read_back>>
    /\ UNCHANGED nonCodecVars

\* VarLong::read_as_mc_type(&mut data_cur)
ReadVarLong ==
    /\ cpc = "read"
    /\ read_back' = Some(VarLongRead(written \o behind))
    /\ cpc' = "done"
    /\ UNCHANGED <<test_number, behind, written>>
    /\ UNCHANGED nonCodecVars

NextVarLong == WriteVarLong \/ ReadVarLong

VarLongInit == InitVarLong /\ PoolIdle /\ RelayIdle /\ LoginIdle /\ SessionIdle

SpecVarLong == VarLongInit /\ [][NextVarLong]_vars

(***************************************************************************)
(* SpecWire: the decoders and the round trips of src/src/protocol on their *)
(* own. A run takes one input, a reader's bytes or a value to write, and   *)
(* applies one function of the protocol to it.                             *)
(***************************************************************************)

\* The longest run of bytes with the continuation bit in a reader.
MaxRun == 11

\* n bytes b.
Run(b, n) == [i \in 1..n |-> b]

\* Readers that hold a variable-length number: bytes with the continuation
\* bit, and behind them nothing (the stream ended) or one more byte.
NumberReaders ==
    {Run(b, n) \o e : b \in {128, 255}, n \in 0..MaxRun,
                      e \in {<<>>, <<0>>, <<1>>, <<127>>}}

\* How a failed read of a VarLong ends the thread: an eleventh byte is
\* shifted by 70 bits, which panics in a build with overflow checks and is
\* refused otherwise.
LongOutcomes(err) == IF err = VarLongTooBig THEN {VarLongTooBig, Panic} ELSE {err}

\* The results of a read, given what the decoder computed and how its
\* failure can end.
Results(r, ends) == IF r.ok THEN {Some(r)} ELSE {Some(Fail(e)) : e \in ends}

\* VarInt::read_as_mc_type(reader)
DecodeVarInt ==
    /\ cpc = "var_int"
    /\ LET r == VarIntRead(behind)
       IN  read_back' \in Results(r, IF r.ok THEN {} ELSE Outcomes(r.err))
    /\ cpc' = "var_int_done"
    /\ UNCHANGED <<test_number, behind, written>>
    /\ UNCHANGED nonCodecVars

\* VarLong::read_as_mc_type(reader)
DecodeVarLong ==
    /\ cpc = "var_long"
    /\ LET r == VarLongRead(behind)
       IN  read_back' \in Results(r, IF r.ok THEN {} ELSE LongOutcomes(r.err))
    /\ cpc' = "var_long_done"
    /\ UNCHANGED <<test_number, behind, written>>
    /\ UNCHANGED nonCodecVars

\* What read_raw_packet_id_and_data takes from its reader and asks of the
\* allocator: the bytes consumed, and the vec![0u8; size as usize] of the
\* buffer, which is not reached, made with len bytes, or refused with a
\* panic because a negative size as usize is beyond isize::MAX.
read_raw_effects(reader) ==
    LET size == VarIntRead(reader)
        header == Len(reader) - Len(size.rest)
    IN  IF ~size.ok
        THEN [consumed |-> IF size.err = UnexpectedEof THEN Len(reader) ELSE 6,
              vec |-> "none", len |-> 0]
        ELSE IF size.value > MaxPacketSize
        THEN [consumed |-> header, vec |-> "none", len |-> 0]
        ELSE IF size.value < 0
        THEN [consumed |-> header, vec |-> "capacity overflow", len |-> 0]
        ELSE IF Len(size.rest) < size.value
        THEN [consumed |-> Len(reader), vec |-> "allocated", len |-> size.value]
        ELSE [consumed |-> header + size.value, vec |-> "allocated",
              len |-> size.value]

\* Declared sizes of a frame, around the limit and at the ends of an i32.
DeclaredSizes ==
    {0, 1, 2, 3, MaxPacketSize - 1, MaxPacketSize, MaxPacketSize + 1,
     2 * MaxPacketSize, IntMax, -1, -2, IntMin}

\* What is in the reader behind the size: up to three bytes, the first of
\* them a packet id.
RawBodies == {<<>>, <<0>>, <<0, 7>>, <<0, 7, 7>>, <<128>>, <<255, 1, 7>>}

\* The readers of read_raw_packet_id_and_data.
RawReaders ==
    {VarIntWrite(size) \o body : size \in DeclaredSizes, body \in RawBodies}
        \cup {Run(255, 5), Run(255, 6), <<>>}

\* read_raw_packet_id_and_data(reader)
ReadRaw ==
    /\ cpc = "raw"
    /\ LET r == read_raw_packet_id_and_data(behind)
       IN  read_back' \in {Some(x[1] @@ read_raw_effects(behind)) :
                              x \in Results(r, IF r.ok THEN {} ELSE Outcomes(r.err))}
    /\ cpc' = "raw_done"
    /\ UNCHANGED <<test_number, behind, written>>
    /\ UNCHANGED nonCodecVars

\* The UTF-8 bytes of one character, given as its code point.
Utf8(c) ==
    IF c < 128 THEN <<c>>
    ELSE IF c < 2048 THEN <<192 + (c \div 64), 128 + (c % 64)>>
    ELSE IF c < 65536
    THEN <<224 + (c \div 4096), 128 + ((c \div 64) % 64), 128 + (c % 64)>>
    ELSE <<240 + (c \div 262144), 128 + ((c \div 4096) % 64),
           128 + ((c \div 64) % 64), 128 + (c % 64)>>

\* String::as_bytes: the bytes a String holds for its characters.
RECURSIVE as_bytes(_)
as_bytes(chars) ==
    IF chars = <<>> THEN <<>> ELSE Utf8(Head(chars)) \o as_bytes(Tail(chars))

\* The strings written, as their characters: those of the test ("", "1",
\* "Hello", "test@something", "A\nBC\tDEF"), characters of two, three and
\* four bytes, and strings whose length takes a second byte of the prefix.
TestStrings ==
    {<<>>, <<49>>, <<72, 101, 108, 108, 111>>,
     <<116, 101, 115, 116, 64, 115, 111, 109, 101, 116, 104, 105, 110, 103>>,
     <<65, 10, 66, 67, 9, 68, 69, 70>>,
     <<233>>, <<8364>>, <<128512>>, <<97, 233, 8364, 128512, 0>>,
     Run(97, 3) \o Run(128512, 31), Run(128512, 32), Run(8364, 43)}

\* The body of the loop of test_string_against_itself: the string is
\* written, and read back from the start of what was written.
StringAgainstItself ==
    /\ cpc = "string"
    /\ written' = StringWrite(as_bytes(test_number))
    /\ read_back' = Some(StringRead(written'))
    /\ cpc' = "string_done"
    /\ UNCHANGED <<test_number, behind>>
    /\ UNCHANGED nonCodecVars

\* The Handshakes written: the one of the test (799, "localhost", 25565, 1)
\* and others at the ends of the range of every field.
TestHandshakes ==
    [protocol_version : {799, 47, 0, -1, IntMax, IntMin},
     server_address : {<<108, 111, 99, 97, 108, 104, 111, 115, 116>>, <<>>,
                       <<233, 46, 99>>, Run(128512, 32)},
     server_port : {0, 255, 256, 25565, 65535},
     next_state : {1, 2, 0, -1, 300}]

\* test_handshake_packet_against_itself: the Handshake is written by
\* write_to and read back by from_cursor from the start of what was written.
HandshakeAgainstItself ==
    /\ cpc = "handshake"
    /\ written' = ClientHandshake_write_to(test_number.protocol_version,
                                           as_bytes(test_number.server_address),
                                           test_number.server_port,
                                           test_number.next_state)
    /\ read_back' = Some(ClientHandshake_from_cursor(written'))
    /\ cpc' = "handshake_done"
    /\ UNCHANGED <<test_number, behind>>
    /\ UNCHANGED nonCodecVars

\* `n as u64 & mask` for a mask of w ones: the low w bits of the two's
\* complement of n.
LowBits(n, w) == IF n >= 0 THEN n % 2^w ELSE (2^w - 1) - ((-n - 1) % 2^w)

\* The u64 made of the bits lo .. hi of val, shifted down to bit 0: what
\* val << (63 - hi) >> (63 - hi + lo) gives on a u64, where >> brings in
\* zeros.
UnsignedField(val, lo, hi) ==
    LET RECURSIVE from(_)
        from(k) == IF k > hi THEN 0 ELSE val[k] + 2 * from(k + 1)
    IN  from(lo)

\* The bits lo .. hi of val read as a two's complement number, the bit hi
\* being its sign.
SignedField(val, lo, hi) ==
    UnsignedField(val, lo, hi) - val[hi] * 2^(hi - lo + 1)

\* Position::write_as_mc_type: x in the bits 38 to 63, z in the bits 12 to
\* 37, y in the bits 0 to 11 of a Long.
PositionWrite(x, y, z) ==
    LongWrite([k \in 0..(LongBits - 1) |->
                  IF k >= 38 THEN Bit(LowBits(x, 26), k - 38)
                  ELSE IF k >= 12 THEN Bit(LowBits(z, 26), k - 12)
                  ELSE Bit(LowBits(y, 12), k)])

\* Position::read_as_mc_type: the Long is cast to u64 before it is shifted,
\* and the casts to i32 and i16 keep a number of 26 or 12 bits as it is.
PositionRead(bytes) ==
    LET val == LongRead(bytes)
    IN  IF ~val.ok THEN val
        ELSE [ok |-> TRUE,
              x |-> UnsignedField(val.value, 38, 63),
              y |-> UnsignedField(val.value, 0, 11),
              z |-> UnsignedField(val.value, 12, 37),
              rest |-> val.rest]

\* The Positions written: the ends and the middle of the 26 bits of x and
\* z and of the 12 bits of y.
TestPositions ==
    [x : {0, 1, -1, 100, -100, 2^25 - 1, -(2^25)},
     y : {0, 1, -1, 64, -64, 2^11 - 1, -(2^11)},
     z : {0, 1, -1, 100, -100, 2^25 - 1, -(2^25)}]

\* A Position is written by write_as_mc_type and read back by
\* read_as_mc_type from the start of what was written.
PositionAgainstItself ==
    /\ cpc = "position"
    /\ written' = PositionWrite(test_number.x, test_number.y, test_number.z)
    /\ read_back' = Some(PositionRead(written'))
    /\ cpc' = "position_done"
    /\ UNCHANGED <<test_number, behind>>
    /\ UNCHANGED nonCodecVars

\* Packet::read_with_header_from on the bytes of a reader: the raw read,
\* then the test of the id, whose error names the id of the packet and the
\* id that was read; data is what from_cursor is given.
Packet_read_with_header_from(reader, packet_id) ==
    LET packet == read_raw_packet_id_and_data(reader)
    IN  IF ~packet.ok THEN packet
        ELSE IF packet.id # packet_id
        THEN Fail([text |-> "Expected packet id {}, but got {}",
                   expected |-> packet_id, got |-> packet.id])
        ELSE [ok |-> TRUE, data |-> packet.data, rest |-> packet.rest]

\* The packets written: ids of one, two and five bytes as a VarInt, bodies
\* that are empty, short, and long enough for a size of two bytes, each
\* read back as a packet with one of three ids.
TestFrames ==
    [id : {0, 1, 127, 128, 300, -1},
     body : {<<>>, <<7>>, <<0, 255, 128>>, Run(7, 125), Run(7, 126), Run(7, 127)},
     expected : {0, 1, 128}]

\* What is in the reader behind the frame.
BehindFrame == {<<>>, <<1, 0>>, <<255>>}

\* A packet is written by write_with_header_to into a reader with more
\* bytes behind it, and read from there by read_raw_packet_id_and_data and
\* by read_with_header_from.
FrameAgainstItself ==
    /\ cpc = "frame"
    /\ written' = write_with_header_to(test_number.id, test_number.body)
    /\ read_back' =
          Some([raw |-> read_raw_packet_id_and_data(written' \o behind),
                typed |-> Packet_read_with_header_from(written' \o behind,
                                                       test_number.expected)])
    /\ cpc' = "frame_done"
    /\ UNCHANGED <<test_number, behind>>
    /\ UNCHANGED nonCodecVars

InitWire ==
    /\ written = <<>>
    /\ read_back = NoneOpt
    /\ \/ /\ cpc \in {"var_int", "var_long"}
          /\ behind \in NumberReaders
          /\ test_number = 0
       \/ /\ cpc = "raw"
          /\ behind \in RawReaders
          /\ test_number = 0
       \/ /\ cpc = "string"
          /\ behind = <<>>
          /\ test_number \in TestStrings
       \/ /\ cpc = "handshake"
          /\ behind = <<>>
          /\ test_number \in TestHandshakes
       \/ /\ cpc = "position"
          /\ behind = <<>>
          /\ test_number \in TestPositions
       \/ /\ cpc = "frame"
          /\ behind \in BehindFrame
          /\ test_number \in TestFrames

NextWire ==
    \/ DecodeVarInt
    \/ DecodeVarLong
    \/ ReadRaw
    \/ StringAgainstItself
    \/ HandshakeAgainstItself
    \/ PositionAgainstItself
    \/ FrameAgainstItself

WireInit == InitWire /\ PoolIdle /\ RelayIdle /\ LoginIdle /\ SessionIdle

SpecWire == WireInit /\ [][NextWire]_vars

(***************************************************************************)
(* The source-IP pool: claims C1 to C4, checked under Spec.                *)
(***************************************************************************)

\* The connections that hold pool entry i.
Holders(i) == {c \in Conns : source_ip[c] = i}

\* C1: in every interleaving of get_available_source_ip calls and handle
\* drops, no pool entry is held by two connections at once: an entry has at
\* most one holder besides the pool's own listing.
C1_Exclusive ==
    \A i \in 1..Len(SOURCES) :
        /\ Cardinality(Holders(i)) <= 1
        /\ strong_count[i] <= 2

\* A connection scans the very entry another connection holds.
C1_Witness ==
    \E a \in Conns, b \in Conns :
        /\ a # b
        /\ source_ip[a] # None
        /\ pc[b] = "scan"
        /\ scan[b] = source_ip[a]

\* C2: with exactly one configured address, an acquire for its family fails
\* ("Out of Source IPs!", the kick) when it finds the handle held by another
\* connection, and otherwise succeeds and returns that one address.
C2_SingleAddress ==
    [][\A c \in Conns :
         /\ (/\ Len(SOURCES) = 1
             /\ pc[c] = "scan"
             /\ pc'[c] # "scan"
             /\ FamilyWanted(SOURCES[1], target_addr_v4[c], target_addr_v6[c]))
            => IF Holders(1) \ {c} # {}
               THEN pc'[c] = "kick" /\ source_ip'[c] = None
               ELSE pc'[c] = "clone"
         /\ (Len(SOURCES) = 1 /\ pc[c] = "clone" /\ pc'[c] # "clone")
            => source_ip'[c] = 1 /\ pc'[c] = "connect"
         /\ (Len(SOURCES) = 1 /\ pc[c] = "kick" /\ pc'[c] # "kick")
            => /\ pc'[c] = "closed"
               /\ result'[c] \in {OutOfSourceIPs,
                                  "Kick client due to error obtaining new source ip"}
      ]_vars

\* The second acquire failed while the first handle is held.
C2_Witness ==
    \E a \in Conns, b \in Conns :
        /\ a # b
        /\ Len(SOURCES) = 1
        /\ source_ip[a] = 1
        /\ pc[b] = "closed"
        /\ result[b] = OutOfSourceIPs

\* C3: a connection that acquired a handle gives it back when handle_client
\* ends, by any route: a connection that ended holds nothing, and every
\* entry's ownership count is one plus the number of running connections that
\* hold it, so an entry nobody holds is back at one.
C3_Release ==
    /\ \A c \in Conns : pc[c] \in {"idle", "closed"} => source_ip[c] = None
    /\ \A i \in 1..Len(SOURCES) :
          strong_count[i] =
              1 + Cardinality({c \in Holders(i) : pc[c] \notin {"idle", "closed"}})

\* A connection that had its handle (the pool is not empty and it got past
\* the acquire) ended with an error, and every entry is back at one.
C3_Witness ==
    /\ Len(SOURCES) > 0
    /\ \E c \in Conns : pc[c] = "closed" /\ result[c] = "Parse LoginStart"
    /\ \A i \in 1..Len(SOURCES) : strong_count[i] = 1

\* C4 as claimed: after a pool exhaustion the client has been sent the
\* LoginDisconnect frame, no target connection was opened and the connection
\* ended with the exhaustion error.
C4_Claimed ==
    [][\A c \in Conns :
         (pc[c] = "kick" /\ pc'[c] # "kick")
         => /\ pc'[c] = "closed"
            /\ ~target_opened'[c]
            /\ result'[c] = OutOfSourceIPs
            /\ client_got'[c] =
                 <<[packet |-> "ServerLoginDisconnect", id |-> 0,
                    reason |-> [text |-> "StupidMCProxy Error: Out of Source IPs!"]]>>
      ]_vars

\* C4, amended: after a pool exhaustion no target connection is opened and
\* the handler tries to send the LoginDisconnect frame; when the write
\* succeeds the client has got the frame and the connection ends with the
\* exhaustion error, when the write fails the connection ends with the write
\* error and the client has got no frame.
C4_KickOrWriteError ==
    [][\A c \in Conns :
         (pc[c] = "kick" /\ pc'[c] # "kick")
         => /\ pc'[c] = "closed"
            /\ ~target_opened'[c]
            /\ \/ /\ result'[c] = OutOfSourceIPs
                  /\ client_got'[c] =
                       <<[packet |-> "ServerLoginDisconnect", id |-> 0,
                          reason |-> [text |-> "StupidMCProxy Error: Out of Source IPs!"]]>>
               \/ /\ result'[c] = "Kick client due to error obtaining new source ip"
                  /\ client_got'[c] = <<>>
      ]_vars

\* A connection was refused for want of a source address and told so.
C4_Witness ==
    \E c \in Conns :
        /\ pc[c] = "closed"
        /\ result[c] = OutOfSourceIPs
        /\ Len(client_got[c]) = 1
        /\ ~target_opened[c]

(***************************************************************************)
(* The relay loop: claims C5 to C8, checked under SpecRelay and, where     *)
(* progress is claimed, under SpecRelayFair.                               *)
(***************************************************************************)

Prefix(a, b) == Len(a) <= Len(b) /\ SubSeq(b, 1, Len(a)) = a

\* The result of a failed write to side s.
WriteError(s) == IF s = "client" THEN "Write to client" ELSE "Write to target"

\* C5: in every relay state the bytes written to the target are a prefix of
\* the bytes read from the client, and the bytes written to the client are a
\* prefix of the bytes read from the target.
C5_Ordering ==
    /\ Prefix(written_to["target"], read_from["client"])
    /\ Prefix(written_to["client"], read_from["target"])

\* A flush towards the target that wrote a part of the buffer and then found
\* the socket blocked, after bytes have gone to the client as well.
C5_Witness ==
    /\ rpc = "write_target"
    /\ last_write = "WouldBlock"
    /\ 0 < pos /\ pos < Len(buf_2)
    /\ written_to["client"] # <<>>

\* C6: when the relay ends because a peer closed (a zero-byte read), every
\* byte read from either peer has been written to the other one.
C6_Claimed ==
    relay_result = "Ok" =>
        \A s \in Sides : written_to[Other(s)] = read_from[s]

\* C7: while the writes towards the target keep returning WouldBlock, the
\* forwarding from the target to the client still makes progress: a byte the
\* target has sent reaches the client, unless the connection ends, the client
\* stops accepting writes or the target accepts writes again.
C7_Claimed ==
    \A k \in 0..(MaxBytes - 1) :
        [](  (sent["target"] > k /\ Len(written_to["client"]) = k /\ rpc # "done")
          => <>(\/ Len(written_to["client"]) > k
                \/ rpc = "done"
                \/ ~writable["client"]
                \/ writable["target"]))

\* C8: a WouldBlock on a write leaves the position, the buffer and the bytes
\* written as they are and stays in the flush; the flush is left for the next
\* drain only with the position at the buffer's length and everything read
\* written; and if the receiving peer accepts data from some time on, every
\* flush gets there (or ends in a write error).
C8_RetriedNotDropped ==
    /\ [][(last_write' = "WouldBlock" /\ rpc' # "done")
            => /\ rpc' = rpc
               /\ pos' = pos
               /\ buf_2' = buf_2
               /\ written_to' = written_to]_vars
    /\ [][\A s \in Sides :
            (rpc = WritePc(s) /\ rpc' \notin {WritePc(s), "done"})
            => /\ pos = Len(buf_2)
               /\ written_to[s] = read_from[Other(s)]]_vars
    /\ \A s \in Sides :
         <>[]writable[s] =>
            ((rpc = WritePc(s))
               ~> (\/ rpc = WritePc(s) /\ pos = Len(buf_2)
                   \/ relay_result = WriteError(s)))

\* The flush towards the client found the socket blocked with the whole
\* buffer still to write.
C8_Witness ==
    /\ rpc = "write_client"
    /\ last_write = "WouldBlock"
    /\ pos = 0
    /\ Len(buf_2) = MaxBytes

(***************************************************************************)
(* The login interception: claims C9 and C10, checked under SpecLogin.     *)
(***************************************************************************)

\* The first frame of the buffer handed to the target.
FirstFrame == read_raw_packet_id_and_data(target_calls[1])

\* C9: nothing reaches the target before the client's first login frame has
\* been read, found to be a LoginStart and decoded; then one write call
\* hands over one buffer, which holds the rewritten Handshake (the client's
\* protocol version, the alias or target host and port, next state 2) and
\* right behind it one LoginStart frame and nothing else; what the socket
\* took is a prefix of that buffer.
C9_LoginFirstWrite ==
    /\ lpc \in {"handshake", "read", "check_id", "parse", "frame", "write"}
          => target_calls = <<>> /\ target_got = <<>>
    /\ (lpc = "failed" /\ login_result # "Write to target")
          => target_calls = <<>> /\ target_got = <<>>
    /\ target_calls # <<>> =>
          /\ Len(target_calls) = 1
          /\ Prefix(target_got, target_calls[1])
          /\ VarIntRead(login_sent.id_bytes).value = LoginStartId
          /\ StringRead(login_sent.payload).ok
          /\ login_format \in {"new", "legacy"}
          /\ FirstFrame.ok
          /\ FirstFrame.id = HandshakeId
          /\ LET forwarded == ClientHandshake_from_cursor(FirstFrame.data)
                 second == read_raw_packet_id_and_data(FirstFrame.rest)
             IN  /\ forwarded.ok
                 /\ forwarded.rest = <<>>
                 /\ forwarded.protocol_version = protocol_version
                 /\ forwarded.server_address = unwrap_or(alias_host, TargetHost)
                 /\ forwarded.server_port = unwrap_or(alias_port, TargetPort)
                 /\ forwarded.next_state = 2
                 /\ second.ok
                 /\ second.id = LoginStartId
                 /\ second.rest = <<>>

\* Both frames went out in one piece, the Handshake carrying the alias host
\* and a two-byte protocol version, after a new-format LoginStart.
C9_Witness ==
    /\ lpc = "relay"
    /\ target_calls # <<>>
    /\ target_got = target_calls[1]
    /\ alias_host # NoneOpt
    /\ protocol_version = 765
    /\ login_format = "new"

\* C10: the LoginStart frame forwarded to the target (what follows the
\* Handshake frame in the buffer) carries the packet id the client sent and
\* exactly the payload bytes the client sent, whichever decode succeeded, and
\* its declared length is the length of its encoded id plus the length of
\* that payload, with nothing behind it.
C10_RawPassthrough ==
    target_calls # <<>> =>
        LET declared == VarIntRead(FirstFrame.rest)
            id == VarIntRead(declared.rest)
        IN  /\ declared.ok
            /\ id.ok
            /\ id.value = VarIntRead(login_sent.id_bytes).value
            /\ id.rest = login_sent.payload
            /\ declared.value =
                  (Len(declared.rest) - Len(id.rest)) + Len(login_sent.payload)
            /\ Len(declared.rest) = declared.value
            /\ login_format \in {"new", "legacy"}

\* A LoginStart that only the legacy decode accepts, with bytes behind the
\* name that the proxy did not decode, was forwarded.
C10_Witness ==
    /\ lpc = "relay"
    /\ login_format = "legacy"
    /\ ClientLoginStartOnlyName_from_cursor(login_sent.payload).rest # <<>>
    /\ target_got # <<>>

(***************************************************************************)
(* One connection from its first byte: claims C11 to C17, checked under    *)
(* SpecSession.                                                            *)
(***************************************************************************)

\* The Handshake written to the target of the status query: the first frame
\* on that connection, when it went out whole.
QueryHandshakes ==
    {query_out[i].data : i \in {j \in DOMAIN query_out :
                                   j = 1 /\ "data" \in DOMAIN query_out[j]}}

\* The Handshake bodies at the head of the buffers handed to the login target.
LoginHandshakes ==
    {read_raw_packet_id_and_data(target_calls[i]).data : i \in DOMAIN target_calls}

\* What a Handshake for the target has to carry, given its next_state.
Rewritten(body, next_state) ==
    LET forwarded == ClientHandshake_from_cursor(body)
    IN  /\ forwarded.ok
        /\ forwarded.rest = <<>>
        /\ forwarded.protocol_version = client_handshake[1].protocol_version
        /\ forwarded.server_address =
              (IF alias_host = NoneOpt THEN TargetHost ELSE alias_host[1])
        /\ forwarded.server_port =
              (IF alias_port = NoneOpt THEN TargetPort ELSE alias_port[1])
        /\ forwarded.next_state = next_state
        /\ forwarded.server_address # client_handshake[1].server_address
        /\ forwarded.server_port # client_handshake[1].server_port

\* C11: every Handshake sent to the target carries the alias host if there
\* is one, else the target host, the alias port if there is one, else the
\* target port, each on its own, and the protocol version of the client's
\* Handshake; its next_state is 1 on the status query and 2 on the login
\* path; the host and port of the client's own Handshake are not in it.
C11_HandshakeRewriting ==
    /\ \A body \in QueryHandshakes : Rewritten(body, 1)
    /\ \A i \in DOMAIN target_calls :
          /\ read_raw_packet_id_and_data(target_calls[i]).ok
          /\ read_raw_packet_id_and_data(target_calls[i]).id = HandshakeId
    /\ \A body \in LoginHandshakes : Rewritten(body, 2)

\* A status query went out with the alias host and the target's own port.
C11_Witness ==
    /\ QueryHandshakes # {}
    /\ alias_host # NoneOpt
    /\ alias_port = NoneOpt
    /\ client_handshake[1].protocol_version = 765
    /\ spc = "closed"
    /\ session_result = "Ok"

\* The events of a status exchange that runs to its end.
StatusOrder ==
    <<"resolve", "read_handshake", "read_client_status_request", "connect_target",
      "send_target_handshake", "send_target_status_request",
      "read_target_status_response", "send_target_ping", "read_target_pong",
      "send_client_status_response", "read_client_ping", "send_client_pong">>

\* The events so far, without the close at their end.
Happened == IF spc = "closed" THEN SubSeq(events, 1, Len(events) - 1) ELSE events

\* The frames that went out whole.
Whole(frames) == SelectSeq(frames, LAMBDA f : "partial" \notin DOMAIN f)

\* C12: after a Handshake with next_state 1 the proxy reads the client's
\* StatusRequest, then on one connection of its own to the target sends
\* Handshake and StatusRequest and reads the StatusResponse, sends Ping(0)
\* and reads the Pong, then sends the StatusResponse to the client, reads
\* the client's Ping, sends the Pong and closes; the client is sent nothing
\* before the target has answered the status and the ping.
C12_StatusOrdering ==
    (handshake # NoneOpt /\ handshake[1].next_state = 1) =>
        /\ Prefix(Happened, StatusOrder)
        /\ spc = "closed" => events[Len(events)] = "close"
        /\ (spc = "closed" /\ session_result = "Ok") => Happened = StatusOrder
        /\ target_conns <= 1
        /\ target_calls = <<>>
        /\ Whole(query_out) # <<>> =>
              /\ Whole(query_out)[1].id = HandshakeId
              /\ Prefix(Tail(Whole(query_out)),
                        <<Frame(StatusId, <<>>),
                          Frame(PingId, <<0, 0, 0, 0, 0, 0, 0, 0>>)>>)
        /\ query_out # <<>> => target_conns = 1
        /\ Len(Whole(query_out)) >= 3 <=> Len(Happened) >= 8
        /\ to_client # <<>> =>
              /\ Len(Happened) >= 9
              /\ json_response # NoneOpt
              /\ Len(Whole(query_out)) = 3
        /\ Len(Whole(to_client)) <= 2
        /\ Len(Whole(to_client)) >= 1 =>
              /\ to_client[1].id = StatusId
              /\ "json_response" \in DOMAIN to_client[1]
        /\ Len(Whole(to_client)) = 2 =>
              /\ to_client[2].id = PingId
              /\ Len(Happened) >= 11

\* A status exchange ran to its end and the connection is closed.
C12_Witness ==
    /\ spc = "closed"
    /\ session_result = "Ok"
    /\ events = StatusOrder \o <<"close">>
    /\ Len(to_client) = 2

\* The Ping frames among what the client sent behind its StatusRequest.
SentPings == SelectSeq(Tail(Tail(client_sent)), LAMBDA f : f.id = PingId)

\* The Pong frames the client was sent.
Pongs == SelectSeq(Whole(to_client), LAMBDA f : f.id = PingId)

\* C13: the Pong for the client carries the eight payload bytes of the
\* client's own Ping, whatever they are, and not the zero payload of the
\* proxy's ping to the target; there is one Pong at most and it comes after
\* the StatusResponse.
C13_PongEcho ==
    (handshake # NoneOpt /\ handshake[1].next_state = 1 /\ Pongs # <<>>) =>
        /\ Len(Pongs) = 1
        /\ Len(Whole(to_client)) = 2
        /\ "json_response" \in DOMAIN to_client[1]
        /\ to_client[2] = Pongs[1]
        /\ SentPings # <<>>
        /\ Pongs[1].data = SubSeq(SentPings[1].data, 1, 8)
        /\ ping_request # NoneOpt
        /\ \A k \in 0..63 :
              ping_request[1][k] = Bit(SentPings[1].data[8 - (k \div 8)], k % 8)

\* A Pong went out for a Ping whose payload has its highest bit set and is
\* not zero.
C13_Witness ==
    /\ Pongs # <<>>
    /\ Pongs[1].data = <<128, 0, 0, 0, 0, 0, 0, 1>>
    /\ session_result = "Ok"

\* The document doc with its description replaced by d, every other field
\* as it is.
WithDescription(doc, d) ==
    JObject([k \in DOMAIN doc.object |->
                IF k = "description" THEN d ELSE doc.object[k]])

\* Which case of the rewriting a status document falls under.
Shape(doc) ==
    IF ~IsObject(doc) \/ "description" \notin DOMAIN doc.object THEN "fails"
    ELSE LET d == doc.object.description
         IN  CASE IsString(d) -> "string"
               [] IsArray(d) -> "array"
               [] IsObject(d) /\ "extra" \in DOMAIN d.object /\ IsArray(d.object.extra)
                    -> "object"
               [] OTHER -> "fails"

\* What the rewriting has to make of a document that can take the suffix.
Suffixed(doc, suffix) ==
    LET d == doc.object.description
    IN  CASE Shape(doc) = "string" ->
               WithDescription(doc, JString(d.string \o suffix))
          [] Shape(doc) = "array" ->
               WithDescription(doc, JArray(d.array \o <<JString(suffix)>>))
          [] Shape(doc) = "object" ->
               WithDescription(doc,
                   JObject([k \in DOMAIN d.object |->
                               IF k = "extra"
                               THEN JArray(d.object.extra.array \o <<JString(suffix)>>)
                               ELSE d.object[k]]))

\* C14: the step that rewrites the status appends the suffix to a string
\* description, pushes it as the new last string of the extra array of an
\* object description, pushes it as the new last element of an array
\* description, and fails when the description is an object whose extra is
\* missing or no array, is missing, is a number, a boolean or null, or when
\* the status is no object; every other field stays as the target sent it,
\* and the StatusResponse for the client is that document.
C14_DescriptionRewriting ==
    [][/\ spc = "rewrite" =>
            /\ status = Some(from_str(json_response[1]).value)
            /\ IF Shape(status[1]) = "fails"
               THEN /\ spc' = "closed"
                    /\ session_result' \in ShapeErrors
                    /\ to_client' = <<>>
               ELSE /\ spc' = "respond"
                    /\ status' = Some(Suffixed(status[1], Suffix(ping)))
       /\ (spc = "respond" /\ spc' = "client_ping") =>
            to_client' = <<[id |-> StatusId, json_response |-> JsonText(status[1])]>>
      ]_vars

\* The suffix became the second string of the extra array of an object
\* description, and the document went to the client.
C14_Witness ==
    /\ spc = "client_ping"
    /\ ping = 12
    /\ IsObject(status[1].object.description)
    /\ status[1].object.description.object.extra
          = JArray(<<JString("x"), JString("&8[&9Stupid MC Proxy: &312ms&8]")>>)
    /\ status[1].object.description.object.text = JString("A")
    /\ status[1].object.players.object.max = JNumber(20)
    /\ to_client[1].json_response.value = status[1]

\* C15: when the rewriting refuses the shape of the status, the connection
\* ends with that error and nothing of a StatusResponse or of a Pong, not
\* even a part of one, has been written to the client.
C15_NoPartialResponse ==
    /\ session_result \in ShapeErrors =>
          /\ spc = "closed"
          /\ to_client = <<>>
          /\ "send_client_status_response" \notin {events[i] : i \in DOMAIN events}
          /\ "send_client_pong" \notin {events[i] : i \in DOMAIN events}
          /\ events[Len(events)] = "close"
    /\ (spc \in {"respond", "client_ping", "pong"} \/ to_client # <<>>) =>
          (handshake[1].next_state = 1 => Shape(status[1]) # "fails")

\* The target's description was an object without extra, and the connection
\* ended with the error about it.
C15_Witness ==
    /\ spc = "closed"
    /\ session_result = ExtraNotAnArray
    /\ status = Some(StatusWith(JObject([text |-> JString("A")])))
    /\ to_client = <<>>

\* C16: a Handshake whose next_state is neither 1 nor 2 ends the connection
\* with the error about the next state, and then no source address was
\* asked for, no connection to the target was opened and nothing was
\* written to the client.
C16_UnsupportedNextState ==
    /\ (handshake # NoneOpt /\ handshake[1].next_state \notin {1, 2}) =>
          /\ spc = "closed"
          /\ session_result = UnsupportedNextState
    /\ session_result = UnsupportedNextState =>
          /\ handshake # NoneOpt
          /\ handshake[1].next_state \notin {1, 2}
          /\ session_source = "none"
          /\ target_conns = 0
          /\ query_out = <<>>
          /\ target_calls = <<>>
          /\ to_client = <<>>
          /\ events = <<"resolve", "read_handshake", "close">>

\* A client asked for next state 3 and the connection is closed.
C16_Witness ==
    /\ spc = "closed"
    /\ session_result = UnsupportedNextState
    /\ handshake # NoneOpt
    /\ handshake[1].next_state = 3

\* The phase of the connection in the words of its life cycle, as a number
\* that grows along either path; 0 is AwaitHandshake, 20 is Closed.
PhaseRank ==
    CASE spc \in {"resolve", "handshake"} -> 0
      [] spc = "status_request" -> 1
      [] spc \in {"query_connect", "query_handshake", "query_request",
                  "query_response"} -> 2
      [] spc \in {"query_ping", "query_pong", "query_parse", "rewrite"} -> 3
      [] spc \in {"respond", "client_ping", "pong"} -> 4
      [] spc = "acquire" -> 6
      [] spc = "connect" -> 7
      [] spc = "login" /\ lpc = "handshake" -> 8
      [] spc = "login" /\ lpc \in {"read", "check_id", "parse"} -> 9
      [] spc = "login" /\ lpc \in {"frame", "write"} -> 10
      [] spc = "login" /\ lpc = "relay" -> 11
      [] OTHER -> 20

\* The step looks the target host up.
Resolves == spc = "resolve" /\ spc' # "resolve"

\* C17: a connection moves through its phases forward only, and the target
\* host is looked up only after the client's Handshake has been read, so
\* that a failed lookup closes only a connection whose Handshake was
\* received.
C17_Claimed ==
    [][/\ PhaseRank' >= PhaseRank
       /\ Resolves => handshake # NoneOpt
       /\ session_result' \in {"getaddrinfo", "No address found for target host!"}
             => handshake' # NoneOpt
      ]_vars

\* What the code does: the phases only move forward, the lookup being the
\* first thing a connection does, before its Handshake is read.
C17_ForwardOnly ==
    [][/\ PhaseRank' >= PhaseRank
       /\ Resolves => (handshake = NoneOpt /\ events = <<>> /\ from_client = client_sent)
      ]_vars

(***************************************************************************)
(* Connections side by side: claim C18, checked under Spec.                *)
(***************************************************************************)

\* Connection c ends with an error in this step.
FailsNow(c) ==
    /\ pc[c] # "closed"
    /\ pc'[c] = "closed"
    /\ result'[c] # "Ok"

\* C18: a step in which one connection ends with an error, whatever the
\* error and wherever it is in handle_client, leaves every other
\* connection where it is, with its sockets, what was written to its client
\* and the pool entry it holds; of the pool it changes nothing but the
\* count of the entry the failing connection held, which goes down by one;
\* it leaves the lock free for the others, and a closed connection's place
\* can be accepted again.
C18_ErrorIsolation ==
    [][\A c \in Conns :
          /\ FailsNow(c) =>
                /\ \A d \in Conns \ {c} :
                      /\ pc'[d] = pc[d]
                      /\ source_ip'[d] = source_ip[d]
                      /\ target_opened'[d] = target_opened[d]
                      /\ client_got'[d] = client_got[d]
                      /\ result'[d] = result[d]
                      /\ scan'[d] = scan[d]
                      /\ target_addr_v4'[d] = target_addr_v4[d]
                      /\ target_addr_v6'[d] = target_addr_v6[d]
                /\ SOURCES' = SOURCES
                /\ \A i \in DOMAIN SOURCES :
                      strong_count'[i] =
                          strong_count[i] - (IF source_ip[c] = i THEN 1 ELSE 0)
                /\ source_ip'[c] = None
                /\ mutex' # c
                /\ mutex # c => mutex' = mutex
          /\ pc[c] = "closed" => ENABLED Accept(c)
      ]_vars

\* One connection has ended with an error while the other holds a source
\* address and has its connection to the target.
C18_Witness ==
    \E c \in Conns, d \in Conns :
        /\ c # d
        /\ pc[c] = "closed"
        /\ result[c] \notin {"Ok", "none"}
        /\ source_ip[d] # None
        /\ target_opened[d]
        /\ strong_count[source_ip[d]] = 2

(***************************************************************************)
(* The codecs of the variable-length numbers: claims C19 and C20, checked  *)
(* under SpecVarInt and SpecVarLong.                                       *)
(***************************************************************************)

\* The seven payload bits of byte k (from 0) of the written bytes, 0 when
\* there is no such byte.
Group(k) == IF k < Len(written) THEN written[k + 1] % 128 ELSE 0

\* C19: the bytes written for an i32 are the groups of seven bits of its
\* 32-bit pattern, least significant group first, every byte but the last
\* with its high bit set, as few bytes as hold the pattern (0 is 00, -1 is
\* ff ff ff ff 0f, i32::MIN is 80 80 80 80 08); reading them gives the
\* value back and leaves what is behind them in the reader.
C19_VarIntRoundTrip ==
    /\ cpc \in {"read", "done"} =>
          /\ Len(written) \in 1..5
          /\ \A i \in 1..Len(written) : written[i] \in 0..255
          /\ \A i \in 1..(Len(written) - 1) : written[i] >= 128
          /\ written[Len(written)] < 128
          /\ Len(written) > 1 => written[Len(written)] # 0
          /\ Group(4) < 16
          /\ test_number = Group(0) + Group(1) * 2^7 + Group(2) * 2^14 + Group(3) * 2^21
                       + (IF Group(4) >= 8 THEN Group(4) - 16 ELSE Group(4)) * 2^28
          /\ test_number = 0 => written = <<0>>
          /\ test_number = -1 => written = <<255, 255, 255, 255, 15>>
          /\ test_number = IntMin => written = <<128, 128, 128, 128, 8>>
          /\ test_number = IntMax => written = <<255, 255, 255, 255, 7>>
          /\ test_number = 127 => written = <<127>>
          /\ test_number = 128 => written = <<128, 1>>
    /\ cpc = "done" =>
          /\ read_back[1].ok
          /\ read_back[1].value = test_number
          /\ read_back[1].rest = behind

\* i32::MIN was written in five bytes and read back with a byte behind it
\* left in the reader.
C19_Witness ==
    /\ cpc = "done"
    /\ test_number = IntMin
    /\ written = <<128, 128, 128, 128, 8>>
    /\ behind = <<255>>
    /\ read_back[1].value < 0

\* The nine 0xff bytes, or nine of another byte, that begin an encoding.
Nine(b) == [i \in 1..9 |-> b]

\* C20: the bytes written for an i64 are the groups of seven bits of its
\* 64-bit pattern, least significant group first, every byte but the last
\* with its high bit set, as few bytes as hold the pattern (-1 is nine ff
\* and 01, i64::MIN is nine 80 and 01); reading them gives the value back.
C20_VarLongRoundTrip ==
    /\ cpc \in {"read", "done"} =>
          /\ Len(written) \in 1..10
          /\ \A i \in 1..Len(written) : written[i] \in 0..255
          /\ \A i \in 1..(Len(written) - 1) : written[i] >= 128
          /\ written[Len(written)] < 128
          /\ Len(written) > 1 => written[Len(written)] # 0
          /\ Group(9) < 2
          /\ \A b \in 0..63 : test_number[b] = Bit(Group(b \div 7), b % 7)
          /\ (\A b \in 0..63 : test_number[b] = 1)
                => written = Nine(255) \o <<1>>
          /\ (test_number[63] = 1 /\ \A b \in 0..62 : test_number[b] = 0)
                => written = Nine(128) \o <<1>>
          /\ (test_number[63] = 0 /\ \A b \in 0..62 : test_number[b] = 1)
                => written = SubSeq(Nine(255), 1, 8) \o <<127>>
          /\ (\A b \in 0..63 : test_number[b] = (IF b >= 31 THEN 1 ELSE 0))
                => written = <<128, 128, 128, 128, 248, 255, 255, 255, 255, 1>>
          /\ (\A b \in 0..63 : test_number[b] = 0) => written = <<0>>
    /\ cpc = "done" =>
          /\ read_back[1].ok
          /\ \A b \in 0..63 : read_back[1].value[b] = test_number[b]
          /\ read_back[1].rest = behind

\* i64::MIN was written in ten bytes and read back as a negative number.
C20_Witness ==
    /\ cpc = "done"
    /\ test_number = FromBits({63})
    /\ written = Nine(128) \o <<1>>
    /\ read_back[1].value[63] = 1
    /\ behind = <<255>>

(***************************************************************************)
(* The decoders on their own: claims C21 to C26, checked under SpecWire.   *)
(***************************************************************************)

\* The first n bytes of the reader all have the continuation bit.
Continues(n) == Len(behind) >= n /\ \A i \in 1..n : behind[i] >= 128

\* C21: reading a VarInt whose fifth byte still has its continuation bit,
\* or a VarLong whose tenth byte still has it, fails with the error that
\* the number is too big, and returns no value.
C21_Claimed ==
    /\ (cpc = "var_int_done" /\ Continues(5)) =>
          /\ ~read_back[1].ok
          /\ read_back[1].err = VarIntTooBig
    /\ (cpc = "var_long_done" /\ Continues(10)) =>
          /\ ~read_back[1].ok
          /\ read_back[1].err = VarLongTooBig

\* What the code does: such a read never returns a value, and no read takes
\* a value from more than five, or ten, bytes; but the error is the one
\* about the size only when a sixth, or eleventh, byte is there to be read
\* and the shift of that byte does not panic.
C21_NeverAValue ==
    /\ (cpc = "var_int_done" /\ Continues(5)) => ~read_back[1].ok
    /\ (cpc = "var_long_done" /\ Continues(10)) => ~read_back[1].ok
    /\ (cpc = "var_int_done" /\ read_back[1].ok) =>
          Len(behind) - Len(read_back[1].rest) <= 5
    /\ (cpc = "var_long_done" /\ read_back[1].ok) =>
          Len(behind) - Len(read_back[1].rest) <= 10

\* The size the frame in the reader declares.
Declared == VarIntRead(behind)

\* C22: read_raw_packet_id_and_data refuses every declared size above
\* 8388608 with the error about the size, having read the size and nothing
\* behind it and having made no buffer; a declared size of exactly 8388608
\* passes, and the buffer is made with that many bytes.
C22_FrameSizeLimit ==
    (cpc = "raw_done" /\ Declared.ok) =>
        /\ Declared.value > 8388608 =>
              /\ ~read_back[1].ok
              /\ read_back[1].err = "Receiving packet size would be too big"
              /\ read_back[1].consumed = Len(behind) - Len(Declared.rest)
              /\ read_back[1].vec = "none"
        /\ Declared.value = 8388608 =>
              /\ read_back[1].vec = "allocated"
              /\ read_back[1].len = 8388608
              /\ ~read_back[1].ok => read_back[1].err = "Read expected packet size"
        /\ read_back[1].ok =>
              /\ Declared.value \in 1..8388608
              /\ read_back[1].consumed
                    = Len(behind) - Len(Declared.rest) + Declared.value

\* A frame declared one byte above the limit was refused with its three
\* bytes behind the size left in the reader.
C22_Witness ==
    /\ cpc = "raw_done"
    /\ behind = <<129, 128, 128, 4, 0, 7, 7>>
    /\ read_back[1].err = "Receiving packet size would be too big"
    /\ read_back[1].consumed = 4

\* C23: a frame whose declared size is a negative VarInt is refused by
\* read_raw_packet_id_and_data with an error result, as a negative String
\* length is, and no buffer is sized from the negative value.
C23_Claimed ==
    (cpc = "raw_done" /\ Declared.ok /\ Declared.value < 0) =>
        /\ ~read_back[1].ok
        /\ read_back[1].err # Panic
        /\ read_back[1].vec = "none"

\* What the code does: such a frame never gives a packet, and nothing
\* behind the size is read.
C23_NoPacket ==
    (cpc = "raw_done" /\ Declared.ok /\ Declared.value < 0) =>
        /\ ~read_back[1].ok
        /\ read_back[1].consumed = Len(behind) - Len(Declared.rest)

\* The number of characters in the bytes of a string: its bytes that do
\* not continue a character.
Characters(bytes) == Len(SelectSeq(bytes, LAMBDA b : b < 128 \/ b >= 192))

\* C24: a string that is written and read back is the same string, and
\* the VarInt in front of its bytes is the number of its UTF-8 bytes, which
\* for a string with a character beyond ASCII is more than the number of
\* its characters.
C24_StringRoundTrip ==
    cpc = "string_done" =>
        LET prefix == VarIntRead(written)
        IN  /\ prefix.ok
            /\ prefix.value = Len(prefix.rest)
            /\ prefix.rest = as_bytes(test_number)
            /\ Characters(prefix.rest) = Len(test_number)
            /\ (\E i \in DOMAIN test_number : test_number[i] >= 128)
                  => prefix.value > Len(test_number)
            /\ (\A i \in DOMAIN test_number : test_number[i] < 128)
                  => prefix.rest = test_number
            /\ read_back[1].ok
            /\ read_back[1].value = as_bytes(test_number)
            /\ read_back[1].rest = <<>>

\* A string of a, e with an accent, the euro sign, an emoji and NUL went
\* through: five characters in eleven bytes.
C24_Witness ==
    /\ cpc = "string_done"
    /\ test_number = <<97, 233, 8364, 128512, 0>>
    /\ written = <<11, 97, 195, 169, 226, 130, 172, 240, 159, 152, 128, 0>>
    /\ read_back[1].ok

\* C25: the body written for a Handshake holds, in this order and with
\* nothing else, the protocol version as a VarInt, the server address as a
\* String, the server port as two bytes with the high byte first, and the
\* next state as a VarInt; reading it back gives a Handshake with the same
\* four fields.
C25_HandshakeRoundTrip ==
    cpc = "handshake_done" =>
        LET first == VarIntRead(written)
            length == VarIntRead(first.rest)
            address == SubSeq(length.rest, 1, length.value)
            port == SubSeq(length.rest, length.value + 1, length.value + 2)
            last == VarIntRead(SubSeq(length.rest, length.value + 3,
                                      Len(length.rest)))
        IN  /\ first.ok /\ first.value = test_number.protocol_version
            /\ length.ok /\ length.value = Len(as_bytes(test_number.server_address))
            /\ address = as_bytes(test_number.server_address)
            /\ Len(port) = 2
            /\ port[1] * 256 + port[2] = test_number.server_port
            /\ port[1] \in 0..255 /\ port[2] \in 0..255
            /\ last.ok /\ last.value = test_number.next_state
            /\ last.rest = <<>>
            /\ read_back[1].ok
            /\ read_back[1].protocol_version = test_number.protocol_version
            /\ read_back[1].server_address = as_bytes(test_number.server_address)
            /\ read_back[1].server_port = test_number.server_port
            /\ read_back[1].next_state = test_number.next_state
            /\ read_back[1].rest = <<>>

\* The Handshake of the test went through: 799, "localhost", 25565, 1.
C25_Witness ==
    /\ cpc = "handshake_done"
    /\ test_number.protocol_version = 799
    /\ test_number.server_port = 25565
    /\ written = <<159, 6, 9, 108, 111, 99, 97, 108, 104, 111, 115, 116, 99, 221, 1>>
    /\ read_back[1].server_port = 25565

\* C26: a Position whose x and z are in the signed range of 26 bits and
\* whose y is in the signed range of 12 bits, negative components included,
\* is read back with the same x, y and z after it was written.
C26_Claimed ==
    cpc = "position_done" =>
        /\ read_back[1].ok
        /\ read_back[1].x = test_number.x
        /\ read_back[1].y = test_number.y
        /\ read_back[1].z = test_number.z

\* What the code does: the 64 bits written hold the three components in
\* two's complement, x above z above y, and the read returns each field as
\* a number without a sign, so only components from 0 on come back.
C26_NoSignOnDecode ==
    cpc = "position_done" =>
        LET val == LongRead(written).value
        IN  /\ Len(written) = 8
            /\ SignedField(val, 38, 63) = test_number.x
            /\ SignedField(val, 12, 37) = test_number.z
            /\ SignedField(val, 0, 11) = test_number.y
            /\ read_back[1].ok /\ read_back[1].rest = <<>>
            /\ read_back[1].x = LowBits(test_number.x, 26)
            /\ read_back[1].z = LowBits(test_number.z, 26)
            /\ read_back[1].y = LowBits(test_number.y, 12)
            /\ test_number.x >= 0 => read_back[1].x = test_number.x
            /\ test_number.x < 0 => read_back[1].x = test_number.x + 2^26
            /\ test_number.y < 0 => read_back[1].y = test_number.y + 2^12

(***************************************************************************)
(* The order of handle_client and the scan of the pool: claims C27 to C30. *)
(***************************************************************************)

\* The client sent a whole Handshake frame first: a frame with the id of
\* the Handshake whose body from_cursor decodes.
SentHandshake ==
    /\ client_sent # <<>>
    /\ client_sent[1].id = HandshakeId
    /\ ClientHandshake_from_cursor(client_sent[1].data).ok

\* Something was done towards the target: a socket to it was created,
\* bytes were written to it, or a source address was asked for.
Upstream ==
    \/ target_conns > 0
    \/ query_out # <<>>
    \/ target_calls # <<>>
    \/ target_got # <<>>
    \/ session_source # "none"
    \/ \E i \in DOMAIN events : events[i] \in {"connect_target", "allocate_source"}

\* C27: a socket to the target is created, and a source address is asked
\* for, only after the client's Handshake frame was read and decoded; for
\* a client that sends nothing, a frame with another packet id or a
\* Handshake that cannot be decoded there is no connection to the target
\* and no acquisition from the pool, and the session ends with an error.
C27_NoUpstreamBeforeHandshake ==
    /\ Upstream =>
          /\ SentHandshake
          /\ handshake # NoneOpt
          /\ handshake[1].protocol_version
                = ClientHandshake_from_cursor(client_sent[1].data).protocol_version
          /\ handshake[1].next_state \in {1, 2}
    /\ \A i \in DOMAIN events :
          events[i] \in {"connect_target", "allocate_source"} =>
              \E j \in 1..(i - 1) : events[j] = "read_handshake"
    /\ ~SentHandshake =>
          /\ ~Upstream
          /\ handshake = NoneOpt
          /\ spc = "closed" => session_result \in {"getaddrinfo",
                                                   "No address found for target host!",
                                                   "Read handshake"}

\* A Handshake was read and decoded and then a socket to the target was
\* created.
C27_Witness ==
    /\ SentHandshake
    /\ handshake # NoneOpt
    /\ target_conns = 1
    /\ events[Len(events)] = "connect_target"

\* A client sent a frame with another packet id first and the session is
\* over without a connection to the target.
C27_WrongIdRefused ==
    /\ client_sent # <<>>
    /\ client_sent[1].id # HandshakeId
    /\ spc = "closed"
    /\ session_result = "Read handshake"
    /\ target_conns = 0
    /\ session_source = "none"

\* The results that come from the pool or from a granted source address.
SourceErrors ==
    {OutOfSourceIPs, "Kick client due to error obtaining new source ip",
     "Expected resolved target IPv4", "Expected resolved target IPv6"}

\* C28: with no source address configured, get_available_source_ip returns
\* None and no error, whichever families the target resolved to and
\* whatever the other connections do; the login goes on to connect to the
\* target without a source address, and that connect is not refused for
\* the family of a source address.
C28_EmptyPoolNoPreference ==
    [][Len(SOURCES) = 0 =>
          \A c \in Conns :
             /\ (pc[c] = "acquire" /\ pc'[c] # "acquire") =>
                   /\ pc'[c] = "connect"
                   /\ result'[c] = "none"
                   /\ client_got'[c] = <<>>
             /\ (pc[c] = "connect" /\ pc'[c] # "connect") =>
                   \/ pc'[c] = "login" /\ target_opened'[c]
                   \/ pc'[c] = "closed" /\ result'[c] = "Connect to target"
             /\ pc'[c] \notin {"scan", "clone", "kick"}
             /\ source_ip'[c] = None
             /\ result'[c] \notin SourceErrors
             /\ mutex' = Unlocked]_vars

\* Two logins went through an empty pool at the same time, one to a target
\* with an IPv4 address only and one to a target with an IPv6 address only.
C28_Witness ==
    /\ Len(SOURCES) = 0
    /\ \E c, d \in Conns :
          /\ c # d
          /\ pc[c] = "login" /\ target_opened[c] /\ source_ip[c] = None
          /\ target_addr_v4[c] /\ ~target_addr_v6[c]
          /\ pc[d] = "login" /\ target_opened[d] /\ source_ip[d] = None
          /\ ~target_addr_v4[d] /\ target_addr_v6[d]

\* The entries a connection may be given: those nobody holds, of a family
\* its target resolved to.
EligibleNow(c) ==
    {i \in 1..Len(SOURCES) : Eligible(i, target_addr_v4[c], target_addr_v6[c])}

\* C29 as claimed: the entry get_available_source_ip returns is the one
\* with the lowest index among the entries whose ownership count is one
\* and whose family is requested, and its count becomes two.
C29_Claimed ==
    [][\A c \in Conns :
         (pc[c] = "clone" /\ pc'[c] # "clone")
         => /\ source_ip'[c] = scan[c]
            /\ scan[c] \in EligibleNow(c)
            /\ \A j \in EligibleNow(c) : scan[c] <= j
            /\ strong_count'[scan[c]] = 2
      ]_vars

\* C29, amended: the scan takes the entries in the order of the list from
\* the first one, and judges each at the moment it comes to it: an entry
\* that is then in use or of a family not requested is passed and left as
\* it is, and the first entry that is then held by nobody and of a
\* requested family is returned, its ownership count going from one to two
\* and every other entry staying as it is.
C29_FirstEligibleFound ==
    [][\A c \in Conns :
         /\ (pc[c] = "acquire" /\ pc'[c] = "scan") => scan'[c] = 1
         /\ (pc[c] = "scan" /\ (pc'[c] # "scan" \/ scan'[c] # scan[c]))
            => /\ strong_count' = strong_count
               /\ SOURCES' = SOURCES
               /\ source_ip' = source_ip
               /\ IF scan[c] \in EligibleNow(c)
                  THEN pc'[c] = "clone" /\ scan'[c] = scan[c]
                  ELSE /\ pc'[c] # "clone"
                       /\ scan[c] < Len(SOURCES) =>
                             pc'[c] = "scan" /\ scan'[c] = scan[c] + 1
         /\ (pc[c] = "clone" /\ pc'[c] # "clone")
            => /\ pc'[c] = "connect"
               /\ source_ip'[c] = scan[c]
               /\ scan[c] \in EligibleNow(c)
               /\ strong_count[scan[c]] = 1
               /\ strong_count' = [strong_count EXCEPT ![scan[c]] = 2]
               /\ SOURCES' = SOURCES
               /\ \A d \in Conns \ {c} : source_ip'[d] = source_ip[d]
      ]_vars

\* Of two entries of the same family the first is held by one connection,
\* and another connection passed it and was given the second.
C29_Witness ==
    \E c, d \in Conns :
        /\ c # d
        /\ Len(SOURCES) = 2
        /\ SOURCES[1] = SOURCES[2]
        /\ source_ip[d] = 1
        /\ source_ip[c] = 2
        /\ pc[c] = "connect"
        /\ strong_count[1] = 2 /\ strong_count[2] = 2

\* The entries of a family the target of connection c resolved to.
Requested(c) ==
    {i \in 1..Len(SOURCES) : \/ SOURCES[i] = "v4" /\ target_addr_v4[c]
                             \/ SOURCES[i] = "v6" /\ target_addr_v6[c]}

\* The entries nobody holds.
Unheld == {i \in 1..Len(SOURCES) : strong_count[i] = 1}

\* C30: on a pool that is not empty, a scan that has no entry both unheld
\* and of a requested family gives none and ends with "Out of Source IPs!";
\* a connection whose target resolved to no family of any entry is never
\* given an entry and never goes on to connect without one, even with
\* every entry free; the refusal ends the connection with the kick and
\* without a connection to the target, and leaves the pool as it was.
C30_OutOfSourceIPs ==
    [][\A c \in Conns :
         /\ (/\ pc[c] = "scan"
             /\ Requested(c) \cap Unheld = {}
             /\ (pc'[c] # "scan" \/ scan'[c] # scan[c]))
            => /\ IF scan[c] < Len(SOURCES)
                  THEN pc'[c] = "scan" /\ scan'[c] = scan[c] + 1
                  ELSE pc'[c] = "kick" /\ mutex' = Unlocked
               /\ strong_count' = strong_count
               /\ SOURCES' = SOURCES
               /\ source_ip' = source_ip
         /\ (/\ Len(SOURCES) > 0
             /\ pc[c] \in {"acquire", "scan"}
             /\ Requested(c) = {})
            => /\ pc'[c] \in {"acquire", "scan", "kick"}
               /\ source_ip'[c] = None
         /\ (Len(SOURCES) > 0 /\ pc'[c] \in {"connect", "login"})
            => source_ip'[c] \in Requested(c)'
         /\ (pc[c] = "kick" /\ pc'[c] # "kick")
            => /\ pc'[c] = "closed"
               /\ result'[c] \in {OutOfSourceIPs,
                                  "Kick client due to error obtaining new source ip"}
               /\ ~target_opened'[c]
               /\ source_ip[c] = None /\ source_ip' = source_ip
               /\ strong_count' = strong_count
               /\ SOURCES' = SOURCES
      ]_vars

\* Every entry is an IPv6 address and free, the target has an IPv4 address
\* only, and the scan ended with the error.
C30_Witness ==
    \E c \in Conns :
        /\ SOURCES = <<"v6", "v6">>
        /\ strong_count = <<1, 1>>
        /\ target_addr_v4[c] /\ ~target_addr_v6[c]
        /\ pc[c] = "kick"
        /\ mutex = Unlocked

(***************************************************************************)
(* The first login frame, the end of the relay, the frames and the family  *)
(* of the source address: claims C31 to C35.                               *)
(***************************************************************************)

\* C31: when the first frame the client sends in the login phase has a
\* packet id other than that of LoginStart, handle_client fails with the
\* error that says so, and nothing has been written to the target: the
\* Handshake frame, which is built by then, stays in the buffer.
C31_LoginStartIdCheck ==
    (login_first_packet_id # NoneOpt /\ login_first_packet_id[1] # LoginStartId) =>
        /\ lpc \in {"check_id", "failed"}
        /\ lpc = "failed" => login_result = "Expect to receive Packet LoginStart"
        /\ login_format = "none"
        /\ target_calls = <<>>
        /\ target_got = <<>>
        /\ read_raw_packet_id_and_data(initial_packets_buffer).ok
        /\ read_raw_packet_id_and_data(initial_packets_buffer).id = HandshakeId

\* A frame with packet id 1, whose payload would decode as a LoginStart,
\* was refused with the Handshake built and nothing written.
C31_Witness ==
    /\ lpc = "failed"
    /\ login_first_packet_id = Some(1)
    /\ ClientLoginStart_from_cursor(login_first_packet_data).ok
    /\ login_result = "Expect to receive Packet LoginStart"
    /\ initial_packets_buffer # <<>>
    /\ target_calls = <<>>

\* The payload decodes as username and UUID.
NewFormat == ClientLoginStart_from_cursor(login_first_packet_data).ok

\* The payload decodes as a username.
LegacyFormat == ClientLoginStartOnlyName_from_cursor(login_first_packet_data).ok

\* C32: the payload of the LoginStart is decoded as the new format first,
\* and as the legacy format only when that fails; with either decode
\* succeeding handle_client goes on to frame and forward the packet, and
\* it fails at the decode only when both fail, with the error of the legacy
\* decode and with nothing written to the target.
C32_DualDecode ==
    [][/\ (lpc = "parse" /\ lpc' # "parse") =>
             /\ NewFormat => lpc' = "frame" /\ login_format' = "new"
             /\ (~NewFormat /\ LegacyFormat) =>
                   lpc' = "frame" /\ login_format' = "legacy"
             /\ (~NewFormat /\ ~LegacyFormat) =>
                   /\ lpc' = "failed"
                   /\ login_format' = "none"
                   /\ login_result' \in
                        Outcomes(ClientLoginStartOnlyName_from_cursor(
                                     login_first_packet_data).err)
             /\ target_calls' = <<>> /\ target_got' = <<>>
       /\ (lpc = "frame" /\ lpc' # "frame") =>
             lpc' = "write" /\ login_format' = login_format
       /\ (lpc' = "failed" /\ login_result' # "Write to target") =>
             target_calls' = <<>> /\ target_got' = <<>>
       /\ target_calls' # <<>> => login_format' \in {"new", "legacy"}
      ]_vars

\* A payload that is a username with two bytes behind it, too short for a
\* UUID, was taken as the legacy format and forwarded.
C32_Witness ==
    /\ lpc = "relay"
    /\ login_format = "legacy"
    /\ ~NewFormat
    /\ login_first_packet_data = <<1, 65, 7, 7>>
    /\ target_got = target_calls[1]

\* A payload that neither decode takes ended the login with nothing written.
C32_BothFail ==
    /\ lpc = "failed"
    /\ login_first_packet_id = Some(LoginStartId)
    /\ login_first_packet_data = <<1, 255>>
    /\ login_result = "FromUtf8Error"
    /\ target_calls = <<>>

\* The result of a failed read from side s.
ReadError(s) == IF s = "client" THEN "Read client" ELSE "Read target"

\* C33: the relay loop returns from a read of zero bytes on either socket
\* with success, and from a read or a write that fails with an error other
\* than WouldBlock with that error; it returns in no other way from a
\* socket call: a read or a write that would block leaves the loop running.
C33_RelayTermination ==
    [][/\ (rpc # "done" /\ rpc' = "done") =>
             \/ /\ relay_result' = "Ok"
                /\ \E s \in Sides : rpc = ReadPc(s) /\ rx[s] = <<>> /\ eof[s]
             \/ \E s \in Sides : rpc = ReadPc(s) /\ relay_result' = ReadError(s)
             \/ \E s \in Sides : /\ rpc = WritePc(s) /\ pos < Len(buf_2)
                                 /\ relay_result' = WriteError(s)
             \/ rpc = "wait" /\ delay < 0 /\ relay_result' = "Poller"
       /\ \A s \in Sides :
             /\ (rpc = ReadPc(s) /\ rx[s] = <<>> /\ eof[s] /\ rpc' # rpc) =>
                   rpc' = "done" /\ relay_result' \in {"Ok", ReadError(s)}
             /\ (rpc = ReadPc(s) /\ rx[s] = <<>> /\ ~eof[s] /\ rpc' # rpc) =>
                   \/ rpc' = WritePc(Other(s)) /\ relay_result' = "none"
                   \/ rpc' = "done" /\ relay_result' = ReadError(s)
             /\ (rpc = WritePc(s) /\ pos < Len(buf_2) /\ ~writable[s]
                   /\ <<rpc, last_write>>' # <<rpc, last_write>>) =>
                   \/ rpc' = rpc /\ last_write' = "WouldBlock" /\ relay_result' = "none"
                   \/ rpc' = "done" /\ relay_result' = WriteError(s)
       /\ rpc = "done" => rpc' = "done" /\ relay_result' = relay_result
      ]_vars

\* The target closed and the loop returned with success, after bytes of the
\* client had gone to the target and while the client is still there.
C33_Witness ==
    /\ rpc = "done"
    /\ relay_result = "Ok"
    /\ eof["target"] /\ ~eof["client"]
    /\ rx["target"] = <<>>
    /\ written_to["target"] # <<>>
    /\ last_write = "none"

\* A read of the client failed and the loop returned with that error.
C33_ReadError ==
    /\ rpc = "done"
    /\ relay_result = "Read client"
    /\ ~eof["client"]

\* A write to the target would block and the loop goes on.
C33_WouldBlock ==
    /\ rpc = "write_target"
    /\ last_write = "WouldBlock"
    /\ relay_result = "none"

\* C34: what write_with_header_to writes for a packet is a VarInt n and
\* exactly n bytes behind it, n being the length of the packet id as a
\* VarInt plus the length of the body; read_raw_packet_id_and_data gives
\* back the id and the body from these bytes and leaves what is behind the
\* frame in the reader; read_with_header_from gives the body when the id is
\* the one of the packet asked for and else fails with an error that names
\* the id asked for and the id read.
C34_FrameAgreement ==
    cpc = "frame_done" =>
        LET n == VarIntRead(written)
            raw == read_back[1].raw
            typed == read_back[1].typed
        IN  /\ n.ok
            /\ n.value = Len(n.rest)
            /\ n.value = Len(VarIntWrite(test_number.id)) + Len(test_number.body)
            /\ n.rest = VarIntWrite(test_number.id) \o test_number.body
            /\ raw.ok
            /\ raw.id = test_number.id
            /\ raw.data = test_number.body
            /\ raw.rest = behind
            /\ test_number.id = test_number.expected =>
                  typed.ok /\ typed.data = test_number.body /\ typed.rest = behind
            /\ test_number.id # test_number.expected =>
                  /\ ~typed.ok
                  /\ typed.err.expected = test_number.expected
                  /\ typed.err.got = test_number.id

\* A packet with the id 128 and a body of 126 bytes was written as a frame
\* of 128 bytes behind a size of two bytes, read back whole with a byte
\* left in the reader, and refused as a packet with the id 1.
C34_Witness ==
    /\ cpc = "frame_done"
    /\ test_number.id = 128
    /\ Len(test_number.body) = 126
    /\ test_number.expected = 1
    /\ SubSeq(written, 1, 4) = <<128, 1, 128, 1>>
    /\ behind = <<255>>
    /\ read_back[1].raw.rest = <<255>>
    /\ ~read_back[1].typed.ok

\* The family of the source address connection c holds, "none" without one.
HeldFamily(c) == IF source_ip[c] = None THEN "none" ELSE SOURCES[source_ip[c]]

\* C35: a connection that holds a source address has a resolved target
\* address of the family of that address, IPv4 for IPv4 and IPv6 for IPv6;
\* so no connection ends because the target address of the family of its
\* source address is missing, and the connect with a source address goes
\* to the target address of that family.
C35_SourceFamilyResolved ==
    [][\A c \in Conns :
         /\ HeldFamily(c)' = "v4" => target_addr_v4'[c]
         /\ HeldFamily(c)' = "v6" => target_addr_v6'[c]
         /\ result'[c] \notin {"Expected resolved target IPv4",
                               "Expected resolved target IPv6"}
         /\ (pc[c] = "clone" /\ pc'[c] = "connect") =>
               \/ SOURCES[scan[c]] = "v4" /\ target_addr_v4[c]
               \/ SOURCES[scan[c]] = "v6" /\ target_addr_v6[c]
         /\ (pc[c] = "connect" /\ pc'[c] = "login") =>
               /\ target_opened'[c]
               /\ HeldFamily(c) = "v4" => target_addr_v4[c]
               /\ HeldFamily(c) = "v6" => target_addr_v6[c]
      ]_vars

\* The target has an IPv6 address only; the connection passed the free
\* IPv4 entry, holds the IPv6 entry and has connected to the target.
C35_Witness ==
    \E c \in Conns :
        /\ SOURCES = <<"v4", "v6">>
        /\ strong_count = <<1, 2>>
        /\ source_ip[c] = 2
        /\ ~target_addr_v4[c] /\ target_addr_v6[c]
        /\ pc[c] = "login"
        /\ target_opened[c]

====
